---- MODULE Spec2Model ----
(***************************************************************************)
(* Scheme Discovery & Eligibility Retrieval Engine.                        *)
(*                                                                         *)
(* A model of src/scheme_rag_agent.py (normaliser, eligibility checker,    *)
(* retrieval), src/agent_system/tools.py (get_subcategories_tool,          *)
(* scheme_tool) and the two copies of SchemeAgentNode                      *)
(* (src/agent_system/scheme_agent.py and src/agents.py).                   *)
(*                                                                         *)
(* Python values are modelled as follows.                                  *)
(*   Optional[x]   a sequence of length <= 1: <<>> is None, <<v>> is v.    *)
(*   truthiness    Truthy(o): o is not None and its value is not 0 / "".   *)
(*   str.lower()   Lower(s), a table over the strings the model uses.      *)
(*   dict          a sequence of <<key, value>> pairs in insertion order   *)
(*                 (json.dumps / json.loads keep that order).              *)
(*   list.sort     a stable insertion sort (SortDesc).                     *)
(***************************************************************************)
EXTENDS Integers, Sequences, FiniteSets, TLC

VARIABLES
    profile,      \* EligibilityChecker: the UserProfile
    scheme,       \* EligibilityChecker: the scheme being assessed
    elig,         \* EligibilityChecker: (status, reasons) returned
    all_schemes,  \* the records of SCHEMES_FILE, in file order
    query,        \* retrieval: the call (retrieve_schemes or scheme_tool) and its arguments
    results,      \* retrieval: the records the call returned, in order
    subcats,      \* number mapping: the get_subcategories_tool response it reads
    mapped,       \* number mapping: the call of _map_number_to_subcategory and its result
    env,          \* process: the deployment (file readable, RAG_AVAILABLE, which copy runs)
    agent,        \* process: the SchemeAgentNode's fields (_rag_agent, _subcategories_cache)
    turn,         \* process: the arguments of the last call of process
    resp,         \* process: the payload the last call returned
    prev,         \* process: the payload the call before it returned
    trace,        \* process: what the last call did: the calls it made, what it resolved
    requests,     \* first use: each concurrent request's position and the engine it holds
    engine        \* first use: self._rag_agent, each engine's _loaded, the loads done

eligVars == <<profile, scheme, elig>>
retrVars == <<query, results>>
mapVars == <<subcats, mapped>>
procVars == <<env, agent, turn, resp, prev, trace>>
loadVars == <<requests, engine>>

vars == <<eligVars, all_schemes, retrVars, mapVars, procVars, loadVars>>

----------------------------------------------------------------------------
(* Python values *)

NoneV == <<>>
Some(v) == <<v>>
IsNone(o) == o = <<>>
Val(o) == o[1]

\* bool(x) for an Optional[int | float] and for an Optional[str]
Truthy(o) == o # <<>> /\ o[1] # 0
TruthyS(o) == o # <<>> /\ o[1] # ""

Lower(s) ==
    CASE s = "Goa" -> "goa"
      [] s = "Must" -> "must"
      [] s = "Minimum" -> "minimum"
      [] s = "Income" -> "income"
      [] s = "Age" -> "age"
      [] s = "Women" -> "women"
      [] s = "None" -> "none"
      [] s = "Central" -> "central"
      [] s = "State" -> "state"
      [] s = "GOA" -> "goa"
      [] s = "Kerala" -> "kerala"
      [] s = "Financial assistance" -> "financial assistance"
      [] s = "Animal husbandry" -> "animal husbandry"
      [] s = "Insurance" -> "insurance"
      [] s = "Crop insurance" -> "crop insurance"
      [] OTHER -> s

SeqToSet(s) == {s[i] : i \in 1..Len(s)}

----------------------------------------------------------------------------
(* Bounds *)

MaxVal == 2          \* ages, land sizes and incomes range over 0..MaxVal
MaxRecords == 2      \* records in SCHEMES_FILE
MaxScore == 2        \* similarities range over 0..MaxScore (units of 0.05)
MaxTopK == 2         \* top_k ranges over 1..MaxTopK
MaxCount == 2        \* record counts of a topic in a mocked tool response
MaxTopics == 2       \* topics in each dict of a mocked tool response
MaxRequests == 2     \* requests that use the engine for the first time together
MaxNumber == 3       \* numbers a turn can carry range over 1..MaxNumber

OptNum == {NoneV} \cup {Some(v) : v \in 0..MaxVal}

Scopes == {"all", "state_only", "central_only"}

----------------------------------------------------------------------------
(* EligibilityChecker.check_eligibility *)

Ret(status, reasons) == [status |-> status, reasons |-> reasons]

\* the final thresholds on score / max_score (ratio >= 0.8, >= 0.5, > 0)
StatusOfRatio(score, max_score) ==
    IF 10 * score >= 8 * max_score THEN "likely_eligible"
    ELSE IF 10 * score >= 5 * max_score THEN "possibly_eligible"
    ELSE IF score > 0 THEN "unclear"
    ELSE "unlikely"

\* Each Check* returns [stop, max, score, reasons]: stop means the function
\* returned "unlikely" inside this block.
Block(stop, max, score, reasons) ==
    [stop |-> stop, max |-> max, score |-> score, reasons |-> reasons]

CheckAge(p, h) ==
    IF Truthy(h.age_min) \/ Truthy(h.age_max)
    THEN IF Truthy(p.age)
         THEN IF Truthy(h.age_min) /\ Val(p.age) < Val(h.age_min)
              THEN Block(TRUE, 1, 0, <<"age_below_min">>)
              ELSE IF Truthy(h.age_max) /\ Val(p.age) > Val(h.age_max)
              THEN Block(TRUE, 1, 0, <<"age_above_max">>)
              ELSE Block(FALSE, 1, 1, <<"age_ok">>)
         ELSE Block(FALSE, 1, 0, <<"age_not_provided">>)
    ELSE Block(FALSE, 0, 0, <<>>)

CheckLand(p, h) ==
    IF Truthy(h.land_size_min) \/ Truthy(h.land_size_max)
    THEN IF Truthy(p.land_size)
         THEN IF Truthy(h.land_size_min) /\ Val(p.land_size) < Val(h.land_size_min)
              THEN Block(TRUE, 1, 0, <<"land_below_min">>)
              ELSE IF Truthy(h.land_size_max) /\ Val(p.land_size) > Val(h.land_size_max)
              THEN Block(TRUE, 1, 0, <<"land_above_max">>)
              ELSE Block(FALSE, 1, 1, <<"land_ok">>)
         ELSE Block(FALSE, 1, 0, <<>>)
    ELSE Block(FALSE, 0, 0, <<>>)

CheckIncome(p, h) ==
    IF Truthy(h.income_max)
    THEN IF Truthy(p.income)
         THEN IF Val(p.income) > Val(h.income_max)
              THEN Block(TRUE, 1, 0, <<"income_exceeds">>)
              ELSE Block(FALSE, 1, 1, <<"income_ok">>)
         ELSE Block(FALSE, 1, 0, <<>>)
    ELSE Block(FALSE, 0, 0, <<>>)

CheckTarget(p, h) ==
    IF h.target_groups # <<>>
    THEN IF TruthyS(p.target_group) /\ Val(p.target_group) \in SeqToSet(h.target_groups)
         THEN Block(FALSE, 1, 1, <<"target_matches">>)
         ELSE IF ~TruthyS(p.target_group)
         THEN Block(FALSE, 1, 0, <<"target_not_specified">>)
         ELSE Block(FALSE, 1, 0, <<>>)
    ELSE Block(FALSE, 0, 0, <<>>)

CheckState(p, s, h) ==
    IF h.states # <<>>
    THEN IF s.state # ""
         THEN IF TruthyS(p.state) /\ Lower(Val(p.state)) = Lower(s.state)
              THEN Block(FALSE, 1, 1, <<"state_matches">>)
              ELSE IF ~TruthyS(p.state)
              THEN Block(FALSE, 1, 0, <<"state_not_specified">>)
              ELSE Block(FALSE, 1, 0, <<>>)
         ELSE Block(FALSE, 1, 1, <<"central_scheme">>)
    ELSE Block(FALSE, 0, 0, <<>>)

check_eligibility(p, s) ==
    IF ~s.has_hints
    THEN Ret("unclear", <<"no_eligibility_information">>)
    ELSE
    LET h  == s.hints
        a  == CheckAge(p, h)
        l  == CheckLand(p, h)
        i  == CheckIncome(p, h)
        t  == CheckTarget(p, h)
        st == CheckState(p, s, h)
    IN  IF a.stop THEN Ret("unlikely", a.reasons)
        ELSE IF l.stop THEN Ret("unlikely", a.reasons \o l.reasons)
        ELSE IF i.stop THEN Ret("unlikely", a.reasons \o l.reasons \o i.reasons)
        ELSE LET max_score == a.max + l.max + i.max + t.max + st.max
                 score     == a.score + l.score + i.score + t.score + st.score
                 reasons   == a.reasons \o l.reasons \o i.reasons
                              \o t.reasons \o st.reasons
             IN  IF max_score = 0
                 THEN Ret("unclear", <<"no_eligibility_criteria">>)
                 ELSE Ret(StatusOfRatio(score, max_score), reasons)

----------------------------------------------------------------------------
(* Text helpers: a tag or phrase as its lower-cased words *)

Words(t) ==
    CASE Lower(t) = "financial assistance" -> <<"financial", "assistance">>
      [] Lower(t) = "animal husbandry" -> <<"animal", "husbandry">>
      [] Lower(t) = "crop insurance" -> <<"crop", "insurance">>
      [] Lower(t) = "insurance" -> <<"insurance">>
      [] OTHER -> <<>>

\* a.lower() in b.lower(), for phrases made of the words above: none of the
\* words contains another, so a is a substring of b exactly when a's words
\* are consecutive words of b.
PhraseIn(a, b) ==
    LET wa == Words(a)
        wb == Words(b)
    IN  \/ a = ""
        \/ /\ wa # <<>>
           /\ \E i \in 0..(Len(wb) - Len(wa)) :
                 \A j \in 1..Len(wa) : wb[i + j] = wa[j]

\* list.sort(key = Key, reverse = True): stable, so equal keys keep their
\* order. Element i lands after every larger key and every earlier equal key.
SortDesc(s, Key(_)) ==
    LET Pos(i) == 1 + Cardinality({j \in 1..Len(s) : Key(s[j]) > Key(s[i])})
                    + Cardinality({j \in 1..(i - 1) : Key(s[j]) = Key(s[i])})
    IN  [p \in 1..Len(s) |-> s[CHOOSE i \in 1..Len(s) : Pos(i) = p]]

\* s[:n]
Take(s, n) == SubSeq(s, 1, IF n < Len(s) THEN n ELSE Len(s))

\* [x for x in s if Keep(x)]
FilterSeq(s, Keep(_)) ==
    LET I == {i \in 1..Len(s) : Keep(s[i])}
    IN  [j \in 1..Cardinality(I) |->
            s[CHOOSE i \in I : Cardinality({k \in I : k < i}) = j - 1]]

----------------------------------------------------------------------------
(* SchemeRAGAgent.retrieve_schemes *)

StateBoost == 4     \* + 0.2, in units of 0.05
CropBoost == 3      \* + 0.15 per matching crop, in units of 0.05

\* SchemeRAGAgent._fuzzy_match_subcategory
fuzzy_match_subcategory(query_subcat, scheme_subcats) ==
    \E i \in 1..Len(scheme_subcats) :
        \/ PhraseIn(query_subcat, scheme_subcats[i])
        \/ PhraseIn(scheme_subcats[i], query_subcat)
        \/ Cardinality(SeqToSet(Words(query_subcat))
                       \cap SeqToSet(Words(scheme_subcats[i]))) >= 2

\* a scope filter that compares states only, and so lets nationwide records
\* through a state_only search of a profile without a state
RetrieveScopeKeepsNoEmptyTest(p, scheme_state) ==
    IF p.scheme_scope = "state_only"
    THEN Lower(scheme_state) = Lower(IF TruthyS(p.state) THEN Val(p.state) ELSE "")
    ELSE IF p.scheme_scope = "central_only"
    THEN scheme_state = ""
    ELSE ~(TruthyS(p.state) /\ scheme_state # ""
           /\ Lower(scheme_state) # Lower(Val(p.state)))

\* a scope filter that narrows a search of scope "all" to nothing: records of
\* other states pass whatever the profile's state
RetrieveScopeKeepsAnyState(p, scheme_state) ==
    IF p.scheme_scope = "state_only"
    THEN ~(scheme_state = ""
           \/ Lower(scheme_state) # Lower(IF TruthyS(p.state) THEN Val(p.state) ELSE ""))
    ELSE IF p.scheme_scope = "central_only"
    THEN scheme_state = ""
    ELSE TRUE

\* the state / central scope filter of retrieve_schemes: TRUE when the record is kept
RetrieveScopeKeeps(p, scheme_state) ==
    IF p.scheme_scope = "state_only"
    THEN ~(scheme_state = ""
           \/ Lower(scheme_state) # Lower(IF TruthyS(p.state) THEN Val(p.state) ELSE ""))
    ELSE IF p.scheme_scope = "central_only"
    THEN scheme_state = ""
    ELSE IF p.scheme_scope = "all"
    THEN ~(TruthyS(p.state) /\ scheme_state # ""
           /\ Lower(scheme_state) # Lower(Val(p.state)))
    ELSE TRUE

RetrieveSubcatKeeps(p, s) ==
    IF TruthyS(p.sub_category)
    THEN \/ \E i \in 1..Len(s.sub_category) :
               PhraseIn(Val(p.sub_category), s.sub_category[i])
         \/ fuzzy_match_subcategory(Val(p.sub_category), s.sub_category)
    ELSE TRUE

BoostedScore(p, s, score) ==
    score
    + (IF TruthyS(p.state) /\ s.state # "" /\ Lower(Val(p.state)) = Lower(s.state)
       THEN StateBoost ELSE 0)
    + (IF p.crops # <<>> /\ s.crop_tags # <<>>
       THEN CropBoost * Cardinality({Lower(c) : c \in SeqToSet(p.crops)}
                                    \cap {Lower(c) : c \in SeqToSet(s.crop_tags)})
       ELSE 0)

\* vector_results: a sequence of [scheme, score] in the order the vector
\* store returned them
retrieve_schemes(p, vector_results, top_k) ==
    LET Keeps(r) == RetrieveScopeKeeps(p, r.scheme.state)
                    /\ RetrieveSubcatKeeps(p, r.scheme)
        kept == FilterSeq(vector_results, Keeps)
        boosted == [i \in 1..Len(kept) |->
                       [scheme |-> kept[i].scheme,
                        score |-> BoostedScore(p, kept[i].scheme, kept[i].score)]]
        ScoreOf(r) == r.score
        sorted == SortDesc(boosted, ScoreOf)
    IN  [i \in 1..Len(Take(sorted, top_k)) |-> sorted[i].scheme]

\* SchemeVectorStore.search: the records with similarity > 0, by similarity
\* descending, at most top_k of them. The similarities are the vectoriser's;
\* numpy's argsort leaves the order of equal similarities open.
VectorSearches(schemes, top_k, maxScore) ==
    { Take(ranked, top_k) :
        ranked \in UNION {
            { r \in [1..n -> [scheme : SeqToSet(schemes), score : 1..maxScore]] :
                 /\ \A i \in 1..n : \A j \in 1..n : i < j => r[i].score >= r[j].score
                 /\ \E f \in [1..n -> 1..Len(schemes)] :
                       /\ \A i \in 1..n : \A j \in 1..n : i # j => f[i] # f[j]
                       /\ \A i \in 1..n : schemes[f[i]] = r[i].scheme }
            : n \in 0..Len(schemes) } }

----------------------------------------------------------------------------
(* scheme_tool (agent_system/tools.py) *)

ToolScopeKeeps(state, scheme_scope, scheme_state) ==
    IF scheme_scope = "central_only"
    THEN scheme_state = ""
    ELSE IF scheme_scope = "state_only"
    THEN state # "" /\ Lower(scheme_state) = Lower(state)
    ELSE IF state # ""
    THEN ~(Lower(scheme_state) # Lower(state) /\ scheme_state # "")
    ELSE TRUE

\* words of more than three characters
Significant(ws) == FilterSeq(ws, LAMBDA w : Len(w) > 3)

ToolSubcatKeeps(sub_category, s) ==
    IF sub_category = "" THEN TRUE
    ELSE \/ \E i \in 1..Len(s.sub_category) :
               Lower(s.sub_category[i]) = Lower(sub_category)
         \/ \E i \in 1..Len(s.sub_category) :
               \/ PhraseIn(sub_category, s.sub_category[i])
               \/ PhraseIn(s.sub_category[i], sub_category)
               \/ /\ Significant(Words(sub_category)) # <<>>
                  /\ Significant(Words(s.sub_category[i])) # <<>>
                  /\ \A w \in SeqToSet(Significant(Words(sub_category))) :
                        w \in SeqToSet(Words(s.sub_category[i]))

ToolLimit == 10

scheme_tool(schemes, state, sub_category, scheme_scope) ==
    LET Keeps(s) == ToolScopeKeeps(state, scheme_scope, s.state)
                    /\ ToolSubcatKeeps(sub_category, s)
    IN  Take(FilterSeq(schemes, Keeps), ToolLimit)

----------------------------------------------------------------------------
(* get_subcategories_tool (agent_system/tools.py) *)

\* the (record, sub_category) occurrences the tool counts, in file order
RECURSIVE Occurrences(_, _)
Occurrences(schemes, state) ==
    IF schemes = <<>> THEN <<>>
    ELSE LET sch == schemes[Len(schemes)]
             rest == Occurrences(SubSeq(schemes, 1, Len(schemes) - 1), state)
             skipped == state # "" /\ Lower(sch.state) # Lower(state) /\ sch.state # ""
         IN  IF skipped THEN rest
             ELSE rest \o [i \in 1..Len(sch.sub_category) |->
                              [name |-> sch.sub_category[i],
                               central |-> sch.state = ""]]

\* the keys of a dict filled in the order of occ: first occurrences only
FirstSeen(occ, Key(_)) ==
    LET idx == [i \in 1..Len(occ) |-> [i |-> i, o |-> occ[i]]]
        IsFirst(x) == \A j \in 1..(x.i - 1) : Key(occ[j]) # Key(x.o)
        firsts == FilterSeq(idx, IsFirst)
    IN  [i \in 1..Len(firsts) |-> firsts[i].o]

CountWhere(occ, P(_)) == Cardinality({i \in 1..Len(occ) : P(occ[i])})

\* state_schemes_stats / central_schemes_stats: a dict as <<key, count>> pairs
Stats(occ, central) ==
    LET mine == FilterSeq(occ, LAMBDA o : o.central = central)
        NameOf(o) == o.name
        keys == FirstSeen(mine, NameOf)
    IN  [i \in 1..Len(keys) |->
            <<keys[i].name, CountWhere(mine, LAMBDA o : o.name = keys[i].name)>>]

\* subcategories_list: keyed by the lower-cased name, named by the first
\* spelling seen, sorted by the combined count descending
SubcategoriesList(occ) ==
    LET LowerName(o) == Lower(o.name)
        keys == FirstSeen(occ, LowerName)
        entries == [i \in 1..Len(keys) |->
            [name |-> keys[i].name,
             count |-> CountWhere(occ, LAMBDA o : Lower(o.name) = Lower(keys[i].name)),
             scheme_types |->
                (IF \E j \in 1..Len(occ) :
                        Lower(occ[j].name) = Lower(keys[i].name) /\ occ[j].central
                 THEN <<"Central">> ELSE <<>>)
                \o (IF \E j \in 1..Len(occ) :
                        Lower(occ[j].name) = Lower(keys[i].name) /\ ~occ[j].central
                    THEN <<"State">> ELSE <<>>)]]
        CountOf(e) == e.count
    IN  SortDesc(entries, CountOf)

\* file_ok = FALSE: open / json.load raised, and the tool answers {"error": ...}
get_subcategories_tool(file_ok, schemes, state) ==
    IF ~file_ok THEN [error |-> TRUE]
    ELSE LET occ == Occurrences(schemes, state)
         IN  [error |-> FALSE,
              sub_categories |-> SubcategoriesList(occ),
              state_schemes |-> Stats(occ, FALSE),
              central_schemes |-> Stats(occ, TRUE)]

----------------------------------------------------------------------------
(* SchemeAgentNode._map_number_to_subcategory *)

DictKeys(d) == [i \in 1..Len(d) |-> d[i][1]]
DictCount(item) == item[2]

\* sorted(d.items(), key = count, reverse = True), then the keys
SortedKeys(d) == DictKeys(SortDesc(d, DictCount))

\* a display list that sorts both dicts by count ascending
DisplayListAscending(info, scope) ==
    LET Neg(item) == 0 - item[2]
        st == DictKeys(SortDesc(info.state_schemes, Neg))
        ce == DictKeys(SortDesc(info.central_schemes, Neg))
    IN  IF scope = "state_only" THEN st
        ELSE IF scope = "central_only" THEN ce
        ELSE st \o FilterSeq(ce, LAMBDA k : k \notin SeqToSet(st))

\* a display list whose order depends on whether a list was derived before
DisplayListByCall(info, scope) ==
    IF mapped.called THEN DisplayListAscending(info, scope)
    ELSE IF scope = "state_only" THEN SortedKeys(info.state_schemes)
    ELSE IF scope = "central_only" THEN SortedKeys(info.central_schemes)
    ELSE SortedKeys(info.state_schemes)
         \o FilterSeq(SortedKeys(info.central_schemes),
                      LAMBDA k : k \notin SeqToSet(SortedKeys(info.state_schemes)))

DisplayList(info, scope) ==
    IF scope = "state_only" THEN SortedKeys(info.state_schemes)
    ELSE IF scope = "central_only" THEN SortedKeys(info.central_schemes)
    ELSE LET state_list == SortedKeys(info.state_schemes)
             central_list == SortedKeys(info.central_schemes)
         IN  state_list \o FilterSeq(central_list,
                                     LAMBDA k : k \notin SeqToSet(state_list))

\* info: the tool's response for the state
map_number_to_subcategory(number, info, scope) ==
    IF info.error THEN ""
    ELSE LET display_list == DisplayList(info, scope)
         IN  IF 1 <= number /\ number <= Len(display_list)
             THEN display_list[number]
             ELSE ""

----------------------------------------------------------------------------
(* The text of a turn. A text is its sequence of tokens: words, and runs of  *)
(* digits with their value. Every substring and regex test of process is a   *)
(* test on the tokens.                                                       *)

W(s) == [w |-> s, n |-> 0 - 1]
Num(n) == [w |-> "#", n |-> n]
IsNum(t) == t.w = "#"

\* the marker a client echoes: "(selecting from subcategories for J)"
MarkerTokens(context) ==
    <<W("selecting"), W("from"), W("subcategories"), W("for"), W(context)>>

\* user_input, and user_input_clean with the marker removed
UserInput(input) ==
    input.text \o (IF input.context # "" THEN MarkerTokens(input.context) ELSE <<>>)
UserInputClean(input) == input.text

\* kw is a prefix / a suffix of the lower-cased word of token t
StartsWith(t, kw) ==
    ~IsNum(t) /\ (Lower(t.w) = kw \/ <<Lower(t.w), kw>> \in {<<"schemes", "scheme">>})
EndsWith(t, kw) ==
    ~IsNum(t) /\ (Lower(t.w) = kw
                  \/ <<Lower(t.w), kw>> \in {<<"subcategories", "categories">>})
IsWord(t, kw) == ~IsNum(t) /\ Lower(t.w) = kw

\* " ".join(phrase) in text.lower(): the first word ends a token, the last
\* one starts a token, the words between are whole tokens
Contains(text, phrase) ==
    LET n == Len(phrase)
    IN  IF n = 1
        THEN \E i \in 1..Len(text) :
                StartsWith(text[i], phrase[1]) \/ EndsWith(text[i], phrase[1])
        ELSE \E i \in 1..(Len(text) - n + 1) :
                /\ EndsWith(text[i], phrase[1])
                /\ \A j \in 2..(n - 1) : IsWord(text[i + j - 1], phrase[j])
                /\ StartsWith(text[i + n - 1], phrase[n])

ContainsAny(text, phrases) == \E ph \in phrases : Contains(text, ph)

IsYears(t) == IsWord(t, "year") \/ IsWord(t, "years")

\* age_patterns
is_age_mention(text) ==
    \E i \in 1..Len(text) :
        \/ /\ i + 2 <= Len(text)
           /\ IsNum(text[i]) /\ IsYears(text[i + 1]) /\ StartsWith(text[i + 2], "old")
        \/ /\ i + 1 <= Len(text)
           /\ IsWord(text[i], "age") /\ IsNum(text[i + 1])
        \/ /\ i + 3 <= Len(text)
           /\ IsNum(text[i]) /\ IsYears(text[i + 1]) /\ IsWord(text[i + 2], "of")
           /\ StartsWith(text[i + 3], "age")
        \/ /\ i + 2 <= Len(text)
           /\ IsNum(text[i]) /\ IsYears(text[i + 1]) /\ StartsWith(text[i + 2], "aged")

\* number_patterns, in the order of the list. A pattern is a sequence of
\* slots: "num" the captured digits, "eq" a whole word out of a set, "pre" a
\* word that starts with one of a set; anchored patterns match the whole text.
Slot(kind, words) == [kind |-> kind, words |-> words]
NumSlot == Slot("num", {})
Unanchored(slots) == [anchored |-> FALSE, slots |-> slots]
number_patterns ==
    << Unanchored(<<Slot("eq", {"govt", "government", "gov"}), Slot("eq", {"scheme"}), NumSlot>>),
       Unanchored(<<Slot("eq", {"scheme"}), NumSlot>>),
       Unanchored(<<Slot("eq", {"number"}), NumSlot>>),
       Unanchored(<<Slot("eq", {"option"}), NumSlot>>),
       Unanchored(<<Slot("eq", {"category"}), NumSlot>>),
       Unanchored(<<Slot("eq", {"subcategory"}), NumSlot>>),
       Unanchored(<<Slot("eq", {"sub-category"}), NumSlot>>),
       Unanchored(<<NumSlot, Slot("eq", {"central", "state", "union"}), Slot("pre", {"scheme"})>>),
       Unanchored(<<NumSlot, Slot("pre", {"scheme"})>>),
       Unanchored(<<NumSlot, Slot("pre", {"category"})>>),
       Unanchored(<<Slot("eq", {"need"}), NumSlot>>),
       Unanchored(<<Slot("eq", {"want"}), NumSlot>>),
       Unanchored(<<Slot("eq", {"select"}), NumSlot>>),
       Unanchored(<<Slot("eq", {"choose"}), NumSlot>>),
       [anchored |-> TRUE, slots |-> <<NumSlot>>] >>

SlotMatches(slot, t) ==
    CASE slot.kind = "num" -> IsNum(t)
      [] slot.kind = "eq" -> \E kw \in slot.words : IsWord(t, kw)
      [] OTHER -> \E kw \in slot.words : StartsWith(t, kw)

MatchesAt(pattern, text, i) ==
    /\ i + Len(pattern.slots) - 1 <= Len(text)
    /\ pattern.anchored => (i = 1 /\ Len(text) = Len(pattern.slots))
    /\ \A j \in 1..Len(pattern.slots) : SlotMatches(pattern.slots[j], text[i + j - 1])

\* re.search: the leftmost match; 0 when the pattern does not match
MatchPosition(pattern, text) ==
    LET at == {i \in 1..Len(text) : MatchesAt(pattern, text, i)}
    IN  IF at = {} THEN 0 ELSE CHOOSE i \in at : \A k \in at : i <= k

Captured(pattern, text, i) ==
    LET j == CHOOSE k \in 1..Len(pattern.slots) : pattern.slots[k].kind = "num"
    IN  text[i + j - 1].n

MaxSelectable == 100

\* number_in_query: the capture of the first pattern whose capture is in
\* 1..100; 0 stands for None
RECURSIVE NumberFrom(_, _)
NumberFrom(k, text) ==
    IF k > Len(number_patterns) THEN 0
    ELSE LET pos == MatchPosition(number_patterns[k], text)
             n == IF pos = 0 THEN 0 ELSE Captured(number_patterns[k], text, pos)
         IN  IF pos # 0 /\ 1 <= n /\ n <= MaxSelectable THEN n
             ELSE NumberFrom(k + 1, text)

number_in_query(text) == IF is_age_mention(text) THEN 0 ELSE NumberFrom(1, text)

mentions_central(user) ==
    ContainsAny(user, {<<"central">>, <<"union">>, <<"pan", "india">>,
                       <<"all", "states">>, <<"india", "level">>})
mentions_state_only(user) ==
    ContainsAny(user, {<<"state", "only">>, <<"only", "state">>,
                       <<"state", "scheme">>, <<"state", "schemes">>})
mentions_both(user) ==
    ContainsAny(user, {<<"both">>, <<"state", "and", "central">>,
                       <<"central", "and", "state">>, <<"all", "schemes">>})

scheme_scope_pref(user) ==
    IF mentions_both(user) THEN "all"
    ELSE IF mentions_central(user) /\ ~mentions_state_only(user) THEN "central_only"
    ELSE IF mentions_state_only(user) /\ ~mentions_central(user) THEN "state_only"
    ELSE "all"

explicit_subcategory_request(user) ==
    ContainsAny(user, {<<"list", "of">>, <<"show", "categories">>,
                       <<"what", "categories">>, <<"available", "categories">>,
                       <<"sub-categories">>, <<"subcategories">>,
                       <<"all", "categories">>, <<"options">>})

common_crops ==
    <<"rice", "wheat", "cotton", "sugarcane", "maize", "pulse", "soybean",
      "groundnut", "vegetable", "fruit", "mango", "banana", "paddy">>

crops_found(user) == FilterSeq(common_crops, LAMBDA c : Contains(user, <<c>>))

has_contextual_hints(user) ==
    \/ crops_found(user) # <<>>
    \/ ContainsAny(user, {<<"small">>, <<"marginal">>, <<"large">>})
    \/ \E i \in 1..Len(user) : IsWord(user[i], "sc") \/ IsWord(user[i], "st")
    \/ ContainsAny(user, {<<"scheduled", "caste">>, <<"scheduled", "tribe">>,
                          <<"woman">>, <<"women">>, <<"female">>, <<"obc">>})
    \/ \E i \in 1..(Len(user) - 1) :
          /\ IsNum(user[i]) /\ user[i].n # 0
          /\ (StartsWith(user[i + 1], "acre") \/ StartsWith(user[i + 1], "hectare"))
    \/ ContainsAny(user, {<<"subsidy">>, <<"loan">>, <<"insurance">>})

\* SchemeAgentNode._extract_state_from_input; of the states list, the ones a
\* text of the model can name, in the order of the list
states == <<"Goa", "Kerala">>

extract_state_from_input(user) ==
    LET named == FilterSeq(states, LAMBDA st : Contains(user, <<Lower(st)>>))
    IN  IF named = <<>> THEN "" ELSE named[1]

----------------------------------------------------------------------------
(* SchemeAgentNode._load_all_subcategories and _extract_subcategory_from_input *)

\* the position of a topic name in sorted() order
AlphabetRank(name) ==
    CASE name = "Animal husbandry" -> 1
      [] name = "Crop insurance" -> 2
      [] name = "Financial assistance" -> 3
      [] OTHER -> 4

\* sorted(list(subcategories_set)); [] when the file cannot be read
load_all_subcategories(file_ok, schemes) ==
    IF ~file_ok THEN <<>>
    ELSE LET names == UNION {SeqToSet(schemes[i].sub_category) : i \in 1..Len(schemes)}
         IN  [i \in 1..Cardinality(names) |->
                 CHOOSE x \in names :
                     Cardinality({y \in names : AlphabetRank(y) < AlphabetRank(x)}) = i - 1]

WordsLonger(sub_cat, n) == FilterSeq(Words(sub_cat), LAMBDA w : Len(w) > n)

PresentWords(text, ws) == Cardinality({i \in 1..Len(ws) : Contains(text, <<ws[i]>>)})

\* keyword_mapping, sorted by keyword length descending: the keywords that map
\* to a topic of the model
keyword_mapping ==
    << <<"husbandry", "Animal husbandry">>, <<"financial", "Financial assistance">>,
       <<"insurance", "Crop insurance">>, <<"subsidy", "Financial assistance">>,
       <<"animal", "Animal husbandry">>, <<"loan", "Financial assistance">> >>

FirstOr(s, default) == IF s = <<>> THEN default ELSE s[1]

extract_subcategory_from_input(text, all_subcategories) ==
    LET StrLen(x) == Len(x)
        sorted_subcategories == SortDesc(all_subcategories, StrLen)
        exact == FilterSeq(sorted_subcategories, LAMBDA sc : Contains(text, Words(sc)))
        \* all words longer than 2 present; more words win, the first one on a tie
        Full(sc) == /\ WordsLonger(sc, 2) # <<>>
                    /\ PresentWords(text, WordsLonger(sc, 2)) = Len(WordsLonger(sc, 2))
        full == FilterSeq(sorted_subcategories, Full)
        best_exact == FilterSeq(full, LAMBDA sc :
                          \A j \in 1..Len(full) :
                              Len(WordsLonger(full[j], 2)) <= Len(WordsLonger(sc, 2)))
        \* more than half of the words longer than 3 present; the best ratio wins
        M(sc) == PresentWords(text, WordsLonger(sc, 3))
        L(sc) == Len(WordsLonger(sc, 3))
        Partial(sc) == L(sc) > 0 /\ 2 * M(sc) > L(sc)
        partial == FilterSeq(sorted_subcategories, Partial)
        best_partial == FilterSeq(partial, LAMBDA sc :
                            \A j \in 1..Len(partial) :
                                M(partial[j]) * L(sc) <= M(sc) * L(partial[j]))
        by_keyword == FilterSeq(keyword_mapping, LAMBDA km :
                          /\ Contains(text, <<km[1]>>)
                          /\ km[2] \in SeqToSet(all_subcategories))
    IN  IF exact # <<>> THEN exact[1]
        ELSE IF best_exact # <<>> THEN best_exact[1]
        ELSE IF best_partial # <<>> THEN best_partial[1]
        ELSE IF by_keyword # <<>> THEN by_keyword[1][2]
        ELSE ""

----------------------------------------------------------------------------
(* SchemeAgentNode.process: agent_system/scheme_agent.py, and its copy in    *)
(* agents.py (impl = "agents") with that module's own tools                  *)

\* agents.py's get_subcategories_tool answers without the "State Schemes" and
\* "Central Schemes" keys, which its callers read as empty dicts
SubcategoriesTool(impl, file_ok, schemes, state) ==
    LET info == get_subcategories_tool(file_ok, schemes, state)
    IN  IF impl = "agents" /\ ~info.error
        THEN [info EXCEPT !.state_schemes = <<>>, !.central_schemes = <<>>]
        ELSE info

\* state or context_state or self._extract_state_from_input(user_input)
search_state_prelim(input) ==
    IF input.state # "" THEN input.state
    ELSE IF input.context # "" THEN input.context
    ELSE extract_state_from_input(UserInput(input))

\* what process reads off the text of the turn before it asks anybody
Facts(input) ==
    [number_in_query |-> number_in_query(UserInputClean(input)),
     scheme_scope_pref |-> scheme_scope_pref(UserInput(input)),
     mentions_both |-> mentions_both(UserInput(input)),
     search_state_prelim |-> search_state_prelim(input),
     explicit_subcategory_request |-> explicit_subcategory_request(UserInput(input)),
     has_contextual_hints |-> has_contextual_hints(UserInput(input)),
     crops_found |-> crops_found(UserInput(input)),
     \* re.search(r'^(\d+)', user_input_clean.strip()); -1 when no match
     leading_number |-> IF UserInputClean(input) # <<>> /\ IsNum(UserInputClean(input)[1])
                        THEN UserInputClean(input)[1].n ELSE 0 - 1]

\* the pre-mapping of a number found in the query, before the LLM is asked;
\* tools[st] is the get_subcategories_tool response for st
PreMap(facts, tools) ==
    LET tried == facts.number_in_query # 0 /\ facts.search_state_prelim # ""
        mapped_subcategory ==
            IF tried
            THEN map_number_to_subcategory(facts.number_in_query,
                                           tools[facts.search_state_prelim],
                                           facts.scheme_scope_pref)
            ELSE ""
    IN  [search_state |-> facts.search_state_prelim,
         search_sub_category |-> mapped_subcategory,
         number_mapped_successfully |-> mapped_subcategory # "",
         map_called |-> tried]

\* the topics an LLM can read out of a text of the model
named_topics == <<"Financial assistance", "Animal husbandry">>

\* what the LLM answers: text that is not JSON, a JSON object with nothing
\* extracted, or a JSON object with the state and the topic the turn names
\* (category and scheme_name stay empty). The context it is given holds the
\* query and, when there is one, "User's state: J": the state it returns is
\* the caller's, or the one the query text mentions as the prompt asks
LLMAnswers(input) ==
    LET given == IF input.state # "" THEN input.state
                 ELSE IF input.context # "" THEN input.context
                 ELSE extract_state_from_input(UserInputClean(input))
        mentioned == extract_state_from_input(UserInputClean(input))
        topic == FirstOr(FilterSeq(named_topics, LAMBDA t :
                             Contains(UserInputClean(input), Words(t))), "")
    IN  {[json_ok |-> FALSE, state |-> "", sub_category |-> ""],
         [json_ok |-> TRUE, state |-> "", sub_category |-> ""],
         [json_ok |-> TRUE, state |-> given, sub_category |-> topic],
         [json_ok |-> TRUE, state |-> IF mentioned # "" THEN mentioned ELSE given,
          sub_category |-> topic]}

NoAnswer == [json_ok |-> FALSE, state |-> "", sub_category |-> "none"]

\* the parse of the LLM answer and the extraction that follows it; extracted
\* is _extract_subcategory_from_input(user_input_clean)
Resolve(impl, facts, pre, llm, extracted, tools) ==
    IF pre.number_mapped_successfully
    THEN [search_state |-> pre.search_state,
          search_sub_category |-> pre.search_sub_category,
          number_mapped_successfully |-> TRUE,
          map_called |-> pre.map_called, llm_called |-> FALSE,
          extract_called |-> FALSE]
    ELSE LET search_state == IF llm.json_ok /\ llm.state # "" THEN llm.state
                             ELSE pre.search_state
             parsed == IF llm.json_ok THEN llm.sub_category ELSE extracted
             improved == IF parsed = "" THEN extracted ELSE parsed
             \* agents.py only: the text starts with digits
             leading == impl = "agents" /\ improved = "" /\ search_state # ""
                        /\ facts.leading_number >= 0
             by_number ==
                 IF leading
                 THEN map_number_to_subcategory(facts.leading_number,
                                                tools[search_state],
                                                facts.scheme_scope_pref)
                 ELSE improved
         IN  [search_state |-> search_state,
              search_sub_category |-> by_number,
              number_mapped_successfully |-> FALSE,
              map_called |-> pre.map_called \/ leading, llm_called |-> TRUE,
              extract_called |-> ~llm.json_ok \/ parsed = ""]

\* agent_system only: no state and no explicit scope defaults to central_only
EffectiveScope(impl, facts, search_state) ==
    IF impl = "agent_system" /\ search_state = ""
       /\ facts.scheme_scope_pref = "all" /\ ~facts.mentions_both
    THEN "central_only"
    ELSE facts.scheme_scope_pref

Hints(impl, facts) == impl = "agent_system" /\ facts.has_contextual_hints

should_show_list(impl, facts, r) ==
    IF Hints(impl, facts) /\ ~facts.explicit_subcategory_request
    THEN FALSE
    ELSE r.search_sub_category = "" /\ ~r.number_mapped_successfully

NoResponse ==
    [response_type |-> "none", keys |-> {}, error |-> FALSE,
     state |-> "", sub_category |-> "", scheme_scope |-> "",
     sub_categories |-> <<>>, schemes |-> <<>>, options |-> <<>>,
     rag_used |-> FALSE]

\* the topic-list payload; info is the tool's response for the state
SubcategoriesPayload(impl, r, scope, info) ==
    LET CountOfPair(item) == item[2]
        central == IF info.error THEN <<>>
                   ELSE DictKeys(SortDesc(info.central_schemes, CountOfPair))
        shown == IF scope = "central_only" THEN central
                 ELSE IF info.error THEN <<>>
                 ELSE [i \in 1..Len(info.sub_categories) |-> info.sub_categories[i].name]
    IN  [NoResponse EXCEPT
            !.response_type = "subcategories",
            !.keys = {"subcategories_info", "search_params", "agent", "response_type"}
                     \cup (IF impl = "agent_system" THEN {"original_query"} ELSE {}),
            !.error = info.error,
            !.state = r.search_state,
            !.scheme_scope = scope,
            !.sub_categories = shown]

RagTopK == 10

\* the RAG path raises when the corpus cannot be loaded, and when the corpus
\* is empty: build_index returns without vectors and search reads vectors.size
RagRaises(file_ok, schemes) == ~file_ok \/ schemes = <<>>

RagPayload(impl, facts, r, scope, vector_results) ==
    LET p == [state |-> Some(r.search_state),
              sub_category |-> Some(r.search_sub_category),
              scheme_scope |-> scope,
              crops |-> IF impl = "agent_system" THEN facts.crops_found ELSE <<>>]
    IN  [NoResponse EXCEPT
            !.response_type = "schemes",
            !.keys = {"scheme_info", "eligibility_questions", "search_params",
                      "agent", "response_type", "rag_used"}
                     \cup (IF impl = "agent_system" THEN {"ui_content"} ELSE {}),
            !.state = r.search_state,
            !.sub_category = r.search_sub_category,
            !.scheme_scope = scope,
            !.schemes = retrieve_schemes(p, vector_results, RagTopK),
            !.rag_used = TRUE]

\* the count of a dict key that equals the sub-category ignoring case, 0 if none
LookupCount(d, sub_category) ==
    LET hits == FilterSeq(d, LAMBDA item : Lower(item[1]) = Lower(sub_category))
    IN  IF hits = <<>> THEN 0 ELSE hits[1][2]

\* the traditional search: the scope choice, or scheme_tool
TraditionalPayload(impl, r, scope, info, file_ok, schemes) ==
    LET looked == r.search_state # "" /\ ~info.error
        state_count == IF looked THEN LookupCount(info.state_schemes, r.search_sub_category)
                       ELSE 0
        central_count == IF looked
                         THEN LookupCount(info.central_schemes, r.search_sub_category)
                         ELSE 0
        has_state_subcat == state_count > 0
        has_central_subcat == central_count > 0
        scheme_scope == IF scope = "central_only" THEN "central_only"
                        ELSE IF scope = "state_only" THEN "state_only"
                        ELSE IF has_state_subcat /\ ~has_central_subcat THEN "state_only"
                        ELSE IF has_central_subcat /\ ~has_state_subcat THEN "central_only"
                        ELSE "all"
    IN  IF has_state_subcat /\ has_central_subcat /\ scope = "all"
        THEN [NoResponse EXCEPT
                 !.response_type = "scheme_type_choice",
                 !.keys = {"scheme_type_choice", "search_params", "agent", "response_type"},
                 !.state = r.search_state,
                 !.sub_category = r.search_sub_category,
                 !.scheme_scope = "all",
                 !.options = <<state_count, central_count>>]
        ELSE [NoResponse EXCEPT
                 !.response_type = "schemes",
                 !.keys = {"scheme_info", "eligibility_questions", "search_params",
                           "agent", "response_type"}
                          \cup (IF impl = "agent_system" THEN {"ui_content"} ELSE {}),
                 !.error = ~file_ok,
                 !.state = r.search_state,
                 !.sub_category = r.search_sub_category,
                 !.scheme_scope = scheme_scope,
                 !.schemes = IF file_ok
                             THEN scheme_tool(schemes, r.search_state,
                                              r.search_sub_category, scheme_scope)
                             ELSE <<>>]

\* {"scheme_info": {"error": "Please specify a state or sub-category"}, "agent": ...}
ErrorPayload ==
    [NoResponse EXCEPT !.response_type = "", !.keys = {"scheme_info", "agent"},
                       !.error = TRUE]

\* a new SchemeAgentNode, and no call yet
NoAgent == [rag_agent |-> "none", subcategories_cache |-> FALSE]
NoTurn == [text |-> <<>>, context |-> "", state |-> "none"]
NoTrace == [calls |-> {}, search_state |-> "", search_sub_category |-> "",
            scheme_scope_pref |-> ""]

----------------------------------------------------------------------------
(* SchemeDataNormalizer: the hints read off a record's eligibility text.     *)
(* The text is " ".join(eligibility).lower() as a sequence of tokens: words  *)
(* and digit runs.                                                           *)

\* kw in word, for the words of the eligibility sentences
Inside(t, kw) ==
    /\ ~IsNum(t)
    /\ \/ Lower(t.w) = kw
       \/ <<Lower(t.w), kw>> \in
             {<<"must", "st">>, <<"acres", "acre">>, <<"years", "year">>,
              <<"lakhs", "lakh">>, <<"farmers", "farmer">>}

eligibility_text(rec) ==
    LET RECURSIVE Join(_)
        Join(e) == IF e = <<>> THEN <<>> ELSE Head(e) \o Join(Tail(e))
    IN  Join(rec.eligibility)

\* positions after `from` where Hit holds, smallest first; 0 when there is none
FirstFrom(text, from, Hit(_)) ==
    LET I == {i \in from..Len(text) : Hit(i)}
    IN  IF I = {} THEN 0 ELSE CHOOSE i \in I : \A j \in I : i <= j

NumAt(text, i) == i >= 1 /\ i <= Len(text) /\ IsNum(text[i])
WordAt(text, i, kw) == i >= 1 /\ i <= Len(text) /\ Inside(text[i], kw)

\* r'age.*?(\d+).*?(\d+)': the first "age", the first number after it and the
\* next number; with a single number of two or more digits the greedy group
\* gives up its last digit to the second group
AgeSpan(text) ==
    LET a  == FirstFrom(text, 1, LAMBDA i : WordAt(text, i, "age"))
        n1 == IF a = 0 THEN 0 ELSE FirstFrom(text, a + 1, LAMBDA i : NumAt(text, i))
        n2 == IF n1 = 0 THEN 0 ELSE FirstFrom(text, n1 + 1, LAMBDA i : NumAt(text, i))
    IN  IF n1 = 0 THEN <<>>
        ELSE IF n2 # 0 THEN <<text[n1].n, text[n2].n>>
        ELSE IF text[n1].n >= 10 THEN <<text[n1].n \div 10, text[n1].n % 10>>
        ELSE <<>>

\* r'between\s+(\d+)\s+and\s+(\d+)\s+years' and r'(\d+)\s+to\s+(\d+)\s+years'
AgeRange(text, lead, mid) ==
    LET off == IF lead = "" THEN 0 ELSE 1
        i == FirstFrom(text, 1, LAMBDA k :
                 /\ lead # "" => WordAt(text, k, lead)
                 /\ NumAt(text, k + off)
                 /\ WordAt(text, k + off + 1, mid)
                 /\ NumAt(text, k + off + 2)
                 /\ WordAt(text, k + off + 3, "years"))
    IN  IF i = 0 THEN <<>> ELSE <<text[i + off].n, text[i + off + 2].n>>

\* r'above\s+(\d+)\s+years?', r'below\s+(\d+)\s+years?'
AgeSide(text, lead) ==
    LET i == FirstFrom(text, 1, LAMBDA k :
                 WordAt(text, k, lead) /\ NumAt(text, k + 1)
                 /\ WordAt(text, k + 2, "year"))
    IN  IF i = 0 THEN <<>> ELSE <<text[i + 1].n>>

\* r'minimum\s+age\s+(\d+)', r'maximum\s+age\s+(\d+)'
AgeLimit(text, lead) ==
    LET i == FirstFrom(text, 1, LAMBDA k :
                 WordAt(text, k, lead) /\ WordAt(text, k + 1, "age")
                 /\ NumAt(text, k + 2))
    IN  IF i = 0 THEN <<>> ELSE <<text[i + 2].n>>

\* the age_patterns loop: the first pattern that matches decides, then break
AgeHints(text) ==
    LET p1 == AgeSpan(text)
        p2 == AgeRange(text, "between", "and")
        p3 == AgeRange(text, "", "to")
        p4 == AgeSide(text, "above")
        p5 == AgeSide(text, "below")
        p6 == AgeLimit(text, "minimum")
        p7 == AgeLimit(text, "maximum")
        Both(p) == [age_min |-> Some(p[1]), age_max |-> Some(p[2])]
        Min(p) == [age_min |-> Some(p[1]), age_max |-> NoneV]
        Max(p) == [age_min |-> NoneV, age_max |-> Some(p[1])]
    IN  IF p1 # <<>> THEN Both(p1)
        ELSE IF p2 # <<>> THEN Both(p2)
        ELSE IF p3 # <<>> THEN Both(p3)
        ELSE IF p4 # <<>> THEN Min(p4)
        ELSE IF p5 # <<>> THEN Max(p5)
        ELSE IF p6 # <<>> THEN Min(p6)
        ELSE IF p7 # <<>> THEN Max(p7)
        ELSE [age_min |-> NoneV, age_max |-> NoneV]

\* (\d+(?:\.\d+)?)\s*(?:acres?|hectares?|bighas?) at position i
AreaAt(text, i) ==
    /\ NumAt(text, i)
    /\ \E u \in {"acre", "hectare", "bigha"} : WordAt(text, i + 1, u)

\* re.findall(r'land.*?(\d+...)\s*(?:acres?|...)'): the values, left to right
RECURSIVE LandThenArea(_, _)
LandThenArea(text, from) ==
    LET l == FirstFrom(text, from, LAMBDA i : WordAt(text, i, "land"))
        a == IF l = 0 THEN 0 ELSE FirstFrom(text, l + 1, LAMBDA i : AreaAt(text, i))
    IN  IF a = 0 THEN <<>> ELSE <<text[a].n>> \o LandThenArea(text, a + 2)

\* re.findall(r'(\d+...)\s*(?:acres?|...).*?land')
RECURSIVE AreaThenLand(_, _)
AreaThenLand(text, from) ==
    LET a == FirstFrom(text, from, LAMBDA i : AreaAt(text, i))
        l == IF a = 0 THEN 0 ELSE FirstFrom(text, a + 2, LAMBDA i : WordAt(text, i, "land"))
    IN  IF l = 0 THEN <<>> ELSE <<text[a].n>> \o AreaThenLand(text, l + 1)

\* re.findall(r'minimum\s+(\d+...)\s*(?:acres?|...)'), and with maximum
RECURSIVE LimitArea(_, _, _)
LimitArea(text, lead, from) ==
    LET i == FirstFrom(text, from, LAMBDA k : WordAt(text, k, lead) /\ AreaAt(text, k + 1))
    IN  IF i = 0 THEN <<>> ELSE <<text[i + 1].n>> \o LimitArea(text, lead, i + 3)

MinOf(values) == CHOOSE v \in SeqToSet(values) : \A w \in SeqToSet(values) : v <= w
MaxOf(values) == CHOOSE v \in SeqToSet(values) : \A w \in SeqToSet(values) : v >= w

\* the land_patterns loop: every pattern is applied, a later one overwrites
LandHints(text) ==
    LET Plain(h, values) ==
            IF values = <<>> THEN h
            ELSE [land_size_min |-> Some(MinOf(values)),
                  land_size_max |-> IF Len(values) > 1 THEN Some(MaxOf(values))
                                    ELSE NoneV]
        h0 == [land_size_min |-> NoneV, land_size_max |-> NoneV]
        h1 == Plain(h0, LandThenArea(text, 1))
        h2 == Plain(h1, AreaThenLand(text, 1))
        v3 == LimitArea(text, "minimum", 1)
        h3 == IF v3 = <<>> THEN h2
              ELSE [h2 EXCEPT !.land_size_min = Some(MinOf(v3))]
        v4 == LimitArea(text, "maximum", 1)
    IN  IF v4 = <<>> THEN h3 ELSE [h3 EXCEPT !.land_size_max = Some(MaxOf(v4))]

Lakh == 100000

\* the number at position i is followed by one of the money units
MoneyAt(text, i, units) ==
    NumAt(text, i) /\ \E u \in units : WordAt(text, i + 1, u)

\* the income_patterns loop: the first pattern that matches decides; the
\* value is in lakhs when 'lakh' occurs in the matched text
IncomeHints(text) ==
    LET inc == FirstFrom(text, 1, LAMBDA i : WordAt(text, i, "income"))
        m1  == IF inc = 0 THEN 0
               ELSE FirstFrom(text, inc + 1,
                              LAMBDA i : MoneyAt(text, i, {"lakh", "rupee", "rs"}))
        m2  == FirstFrom(text, 1, LAMBDA i :
                   /\ MoneyAt(text, i, {"lakh"})
                   /\ \E k \in (i + 2)..Len(text) : WordAt(text, k, "income"))
        ne  == FirstFrom(text, 1, LAMBDA i :
                   WordAt(text, i, "not") /\ WordAt(text, i + 1, "exceed"))
        m3  == IF ne = 0 THEN 0
               ELSE FirstFrom(text, ne + 2, LAMBDA i : MoneyAt(text, i, {"lakh"}))
    IN  IF m1 # 0
        THEN IF \E k \in inc..(m1 + 1) : WordAt(text, k, "lakh")
             THEN Some(text[m1].n * Lakh) ELSE Some(text[m1].n)
        ELSE IF m2 # 0 THEN Some(text[m2].n * Lakh)
        ELSE IF m3 # 0 THEN Some(text[m3].n * Lakh)
        ELSE NoneV

\* target_keywords, in the dict's order
target_keywords ==
    << <<"sc", "SC">>, <<"st", "ST">>, <<"bpl", "BPL">>, <<"women", "Women">>,
       <<"female", "Women">>, <<"landless", "Landless">>, <<"pwd", "PWD">>,
       <<"disabled", "PWD">> >>

\* for keyword, group in target_keywords.items(): if keyword in text: append
RECURSIVE TargetGroups(_, _)
TargetGroups(text, k) ==
    IF k > Len(target_keywords) THEN <<>>
    ELSE (IF \E i \in 1..Len(text) : Inside(text[i], target_keywords[k][1])
          THEN <<target_keywords[k][2]>> ELSE <<>>)
         \o TargetGroups(text, k + 1)

\* SchemeDataNormalizer._extract_eligibility_hints
extract_eligibility_hints(rec) ==
    LET text == eligibility_text(rec)
        a == AgeHints(text)
        l == LandHints(text)
    IN  [age_min |-> a.age_min, age_max |-> a.age_max,
         land_size_min |-> l.land_size_min, land_size_max |-> l.land_size_max,
         income_max |-> IncomeHints(text),
         target_groups |-> TargetGroups(text, 1),
         states |-> IF rec.state # "" THEN <<rec.state>> ELSE <<"Central">>]

\* SchemeDataNormalizer._extract_crop_tags: the crop keywords found in the
\* record's text, title-cased (the keywords the sentences can contain)
crop_keywords == << <<"rice", "Rice">>, <<"wheat", "Wheat">>, <<"dairy", "Dairy">> >>

extract_crop_tags(rec) ==
    LET text == eligibility_text(rec)
        RECURSIVE Found(_)
        Found(k) ==
            IF k > Len(crop_keywords) THEN <<>>
            ELSE (IF \E i \in 1..Len(text) : Inside(text[i], crop_keywords[k][1])
                  THEN <<crop_keywords[k][2]>> ELSE <<>>) \o Found(k + 1)
    IN  Found(1)

\* SchemeDataNormalizer.normalize_scheme: the record with its enriched fields
normalize_scheme(rec) ==
    [scheme_name |-> rec.scheme_name, state |-> rec.state,
     sub_category |-> rec.sub_category, eligibility |-> rec.eligibility,
     has_hints |-> TRUE, hints |-> extract_eligibility_hints(rec),
     crop_tags |-> extract_crop_tags(rec)]

----------------------------------------------------------------------------
(* SpecEligibility: one assessment of one scheme against one profile *)

EligProfiles ==
    [age : OptNum, land_size : OptNum, income : OptNum,
     target_group : {NoneV, Some("SC")},
     state : {NoneV, Some("goa"), Some("Kerala")}]

EligHints ==
    [age_min : OptNum, age_max : OptNum,
     land_size_min : OptNum, land_size_max : OptNum,
     income_max : OptNum,
     target_groups : {<<>>, <<"SC">>, <<"ST">>}]

NotAssessed == Ret("none", <<>>)

NoScheme == [state |-> "", has_hints |-> FALSE]

NoQuery == [via |-> "none"]

IdleEligibility == profile = [age |-> NoneV] /\ scheme = NoScheme /\ elig = NotAssessed
IdleRetrieval == all_schemes = <<>> /\ query = NoQuery /\ results = <<>>
IdleMapping == subcats = [error |-> TRUE] /\ mapped = [called |-> FALSE]
IdleLoad == requests = <<>> /\ engine = [ref |-> 0]
IdleProcess ==
    /\ env = [file_ok |-> TRUE] /\ agent = NoAgent /\ turn = NoTurn
    /\ resp = NoResponse /\ prev = NoResponse /\ trace = NoTrace

InitEligibility ==
    /\ profile \in EligProfiles
    /\ scheme = NoScheme
    /\ elig = NotAssessed
    /\ IdleRetrieval
    /\ IdleMapping
    /\ IdleProcess
    /\ IdleLoad

CheckEligibility ==
    /\ elig = NotAssessed
    /\ \E h \in EligHints, st \in {"", "Goa"} :
          scheme' = [state |-> st, has_hints |-> TRUE,
                    hints |-> [age_min |-> h.age_min, age_max |-> h.age_max,
                               land_size_min |-> h.land_size_min,
                               land_size_max |-> h.land_size_max,
                               income_max |-> h.income_max,
                               target_groups |-> h.target_groups,
                               states |-> IF st = "" THEN <<"Central">> ELSE <<st>>]]
    /\ elig' = check_eligibility(profile, scheme')
    /\ UNCHANGED <<profile, all_schemes, retrVars, mapVars, procVars, loadVars>>

\* a record that carries no criteria: no eligibility_hints at all, or hints
\* with every field at its default (EligibilityHints())
EmptyHints ==
    [age_min |-> NoneV, age_max |-> NoneV,
     land_size_min |-> NoneV, land_size_max |-> NoneV,
     income_max |-> NoneV, target_groups |-> <<>>, states |-> <<>>]

CheckUnhinted ==
    /\ elig = NotAssessed
    /\ \E st \in {"", "Goa"}, hh \in BOOLEAN :
          scheme' = IF hh
                    THEN [state |-> st, has_hints |-> TRUE, hints |-> EmptyHints]
                    ELSE [state |-> st, has_hints |-> FALSE]
    /\ elig' = check_eligibility(profile, scheme')
    /\ UNCHANGED <<profile, all_schemes, retrVars, mapVars, procVars, loadVars>>

NextEligibility == CheckEligibility \/ CheckUnhinted

SpecEligibility == InitEligibility /\ [][NextEligibility]_vars

\* A hard bound of the hints that the profile's value violates.
AgeViolated(p, h) ==
    /\ p.age # NoneV
    /\ \/ h.age_min # NoneV /\ Val(p.age) < Val(h.age_min)
       \/ h.age_max # NoneV /\ Val(p.age) > Val(h.age_max)
LandViolated(p, h) ==
    /\ p.land_size # NoneV
    /\ \/ h.land_size_min # NoneV /\ Val(p.land_size) < Val(h.land_size_min)
       \/ h.land_size_max # NoneV /\ Val(p.land_size) > Val(h.land_size_max)
IncomeViolated(p, h) ==
    /\ p.income # NoneV
    /\ h.income_max # NoneV /\ Val(p.income) > Val(h.income_max)

Assessed == elig.status # "none"

HintsOf == IF scheme.has_hints THEN scheme.hints ELSE EmptyHints

\* C2: a profile whose age, land size or income is set and violates a hard
\* bound of the record's hints is always assessed "unlikely", whatever the
\* other dimensions are.
C2_HardBoundIsUnlikely ==
    (Assessed /\ (\/ AgeViolated(profile, HintsOf)
                  \/ LandViolated(profile, HintsOf)
                  \/ IncomeViolated(profile, HintsOf)))
        => elig.status = "unlikely"

\* No hard bound of the hints is violated by the profile.
NoBoundViolated ==
    /\ ~AgeViolated(profile, HintsOf)
    /\ ~LandViolated(profile, HintsOf)
    /\ ~IncomeViolated(profile, HintsOf)

\* The dimensions the record's hints constrain, and those of them the
\* profile supplies a value for.
Constrained ==
    LET h == HintsOf
    IN  (IF h.age_min # NoneV \/ h.age_max # NoneV THEN {"age"} ELSE {})
        \cup (IF h.land_size_min # NoneV \/ h.land_size_max # NoneV
              THEN {"land_size"} ELSE {})
        \cup (IF h.income_max # NoneV THEN {"income"} ELSE {})
        \cup (IF h.target_groups # <<>> THEN {"target_group"} ELSE {})
        \cup (IF h.states # <<>> THEN {"state"} ELSE {})

Supplied ==
    {d \in Constrained : profile[d] # NoneV}

\* C11: when no hard bound is violated and the profile supplies no value for
\* any dimension the record constrains, the assessed status is "unclear".
C11_InsufficientInfoIsUnclear ==
    (Assessed /\ NoBoundViolated /\ Supplied = {}) => elig.status = "unclear"

\* The constrained dimensions the profile meets: a supplied number within the
\* bounds, a target group among the record's, the record's state (a
\* nationwide record is met by every profile).
Within(v, lo, hi) ==
    /\ v # NoneV
    /\ lo # NoneV => Val(v) >= Val(lo)
    /\ hi # NoneV => Val(v) <= Val(hi)

Matched ==
    LET h == HintsOf
        p == profile
    IN  {d \in Constrained :
           \/ d = "age" /\ Within(p.age, h.age_min, h.age_max)
           \/ d = "land_size" /\ Within(p.land_size, h.land_size_min, h.land_size_max)
           \/ d = "income" /\ Within(p.income, NoneV, h.income_max)
           \/ d = "target_group" /\ p.target_group # NoneV
                /\ Val(p.target_group) \in SeqToSet(h.target_groups)
           \/ d = "state" /\ \/ scheme.state = ""
                             \/ /\ p.state # NoneV
                                /\ Lower(Val(p.state)) = Lower(scheme.state)}

\* C12: when no hard bound is violated the status follows the ratio of
\* matched to applicable dimensions: at least 0.8 is "likely_eligible", at
\* least 0.5 is "possibly_eligible", above 0 is "unclear"; with no applicable
\* dimension the status is "unclear" with exactly one reason.
C12_StatusFollowsRatio ==
    (Assessed /\ NoBoundViolated) =>
        LET m == Cardinality(Matched)
            a == Cardinality(Constrained)
        IN  /\ a = 0 => elig.status = "unclear" /\ Len(elig.reasons) = 1
            /\ (a > 0 /\ 10 * m >= 8 * a) => elig.status = "likely_eligible"
            /\ (a > 0 /\ 10 * m >= 5 * a /\ 10 * m < 8 * a)
                  => elig.status = "possibly_eligible"
            /\ (m > 0 /\ 10 * m < 5 * a) => elig.status = "unclear"

----------------------------------------------------------------------------
(* SpecRetrieval: calls of retrieve_schemes and scheme_tool over a corpus *)

SchemeStates == {"", "Goa", "Kerala"}
SchemeTags == {<<"Financial assistance">>, <<"Animal husbandry">>}
SchemeNames == {"A"}

Schemes ==
    [scheme_name : SchemeNames, state : SchemeStates,
     sub_category : SchemeTags, crop_tags : {<<>>}]

Corpora == UNION {[1..n -> Schemes] : n \in 0..MaxRecords}

RetrievalProfiles ==
    [state : {NoneV, Some("goa"), Some("Kerala")},
     sub_category : {NoneV, Some("Financial assistance")},
     scheme_scope : Scopes,
     crops : {<<>>}]

InitRetrieval ==
    /\ all_schemes \in Corpora
    /\ query = NoQuery
    /\ results = <<>>
    /\ IdleEligibility
    /\ IdleMapping
    /\ IdleProcess
    /\ IdleLoad

RetrieveSchemes ==
    /\ query = NoQuery
    /\ \E top_k \in 1..MaxTopK :
      \E vr \in VectorSearches(all_schemes, 2 * top_k, MaxScore) :
       \E p \in RetrievalProfiles :
        /\ query' = [via |-> "retrieve_schemes", state |-> p.state,
                     scheme_scope |-> p.scheme_scope]
        /\ results' = retrieve_schemes(p, vr, top_k)
        /\ UNCHANGED <<all_schemes, eligVars, mapVars, procVars, loadVars>>

SchemeTool ==
    /\ query = NoQuery
    /\ \E state \in {"", "goa", "Kerala"}, scope \in Scopes,
         sub_category \in {"", "Financial assistance"} :
        /\ query' = [via |-> "scheme_tool", state |-> Some(state),
                     scheme_scope |-> scope]
        /\ results' = scheme_tool(all_schemes, state, sub_category, scope)
        /\ UNCHANGED <<all_schemes, eligVars, mapVars, procVars, loadVars>>

NextRetrieval == RetrieveSchemes \/ SchemeTool

SpecRetrieval == InitRetrieval /\ [][NextRetrieval]_vars

Called == query.via # "none"
QueryState == IF TruthyS(query.state) THEN Val(query.state) ELSE ""

----------------------------------------------------------------------------
(* SpecMapping: _map_number_to_subcategory over a given tool response, as    *)
(* the unit tests call it (get_subcategories_tool.invoke is mocked)          *)

Topics == {"Financial assistance", "Animal husbandry", "Insurance"}

\* dicts with distinct keys, in every insertion order
Dicts ==
    UNION { { d \in [1..n -> Topics \X (1..MaxCount)] :
                \A i \in 1..n : \A j \in 1..n : i # j => d[i][1] # d[j][1] }
            : n \in 0..MaxTopics }

ScenarioBState == << <<"Financial assistance", 33>>, <<"Animal husbandry", 9>> >>
ScenarioBCentral == << <<"Financial assistance", 21>>, <<"Insurance", 4>> >>

InitMapping ==
    /\ \E st \in Dicts \cup {ScenarioBState}, ce \in Dicts \cup {ScenarioBCentral} :
          subcats = [error |-> FALSE, state_schemes |-> st, central_schemes |-> ce]
    /\ mapped = [called |-> FALSE]
    /\ IdleEligibility
    /\ IdleRetrieval
    /\ IdleProcess
    /\ IdleLoad

MapNumber ==
    /\ ~mapped.called
    /\ \E number \in 1..MaxNumber, scope \in Scopes :
          mapped' = [called |-> TRUE, number |-> number, scope |-> scope,
                     result |-> map_number_to_subcategory(number, subcats, scope)]
    /\ UNCHANGED <<subcats, eligVars, all_schemes, retrVars, procVars, loadVars>>

NextMapping == MapNumber

SpecMapping == InitMapping /\ [][NextMapping]_vars

\* the lists that hold exactly the keys of d, each once, counts never rising
SortedListsOf(d, excluded) ==
    LET keys == {d[i][1] : i \in 1..Len(d)} \ excluded
        n == Cardinality(keys)
        C(k) == d[CHOOSE i \in 1..Len(d) : d[i][1] = k][2]
    IN  { l \in [1..n -> keys] :
            /\ \A i \in 1..n : \A j \in 1..n : i # j => l[i] # l[j]
            /\ \A i \in 1..n : \A j \in 1..n : i < j => C(l[i]) >= C(l[j]) }

\* the lists the claim allows for a scope
ClaimedLists(info, scope) ==
    IF scope = "state_only" THEN SortedListsOf(info.state_schemes, {})
    ELSE IF scope = "central_only" THEN SortedListsOf(info.central_schemes, {})
    ELSE { s \o c : s \in SortedListsOf(info.state_schemes, {}),
                    c \in SortedListsOf(info.central_schemes,
                                        {info.state_schemes[i][1] :
                                            i \in 1..Len(info.state_schemes)}) }

IsScenarioB ==
    subcats.state_schemes = ScenarioBState /\ subcats.central_schemes = ScenarioBCentral

\* C7: the number resolves to the n-th element of the state topics by count
\* descending followed by the nationwide topics not already listed by count
\* descending (one dict only for state_only / central_only), and to nothing
\* outside the list; in Scenario B the list is
\* [Financial assistance, Animal husbandry, Insurance].
C7_NumberIndexesDisplayList ==
    mapped.called =>
        /\ \E l \in ClaimedLists(subcats, mapped.scope) :
              mapped.result = IF mapped.number <= Len(l) THEN l[mapped.number] ELSE ""
        /\ (IsScenarioB /\ mapped.scope = "all") =>
              mapped.result =
                 (IF mapped.number <= 3
                  THEN <<"Financial assistance", "Animal husbandry",
                         "Insurance">>[mapped.number]
                  ELSE "")

\* Scenario B, scope all: item 2 resolved to Animal husbandry
C7_Witness ==
    /\ mapped.called /\ IsScenarioB /\ mapped.scope = "all"
    /\ mapped.number = 2 /\ mapped.result = "Animal husbandry"

----------------------------------------------------------------------------
(* SpecFirstUse: requests that reach the RAG path of process together, on    *)
(* one SchemeAgentNode whose _rag_agent is still None. A request runs        *)
(*     if self._rag_agent is None:                                           *)
(*         self._rag_agent = SchemeRAGAgent()                                *)
(*         self._rag_agent.load_schemes()                                    *)
(*     self._rag_agent.retrieve_schemes(profile)                             *)
(* and another request can run between any two of its steps. An engine is    *)
(* named by the request that created it; ref = 0 is None.                    *)

Requests == 1..MaxRequests

InitFirstUse ==
    /\ requests = [t \in Requests |-> [pc |-> "check_agent", self |-> 0, ret |-> ""]]
    /\ engine = [ref |-> 0, loaded |-> [o \in Requests |-> FALSE], loads |-> 0]
    /\ all_schemes = <<>>
    /\ IdleEligibility
    /\ IdleRetrieval
    /\ IdleMapping
    /\ IdleProcess

At(t, pc) == requests[t].pc = pc
Goto(t, pc) == requests' = [requests EXCEPT ![t].pc = pc]
Others == <<all_schemes, eligVars, retrVars, mapVars, procVars>>

\* if self._rag_agent is None
CheckAgent(t) ==
    /\ At(t, "check_agent")
    /\ Goto(t, IF engine.ref = 0 THEN "create" ELSE "retrieve")
    /\ UNCHANGED <<engine, Others>>

\* self._rag_agent = SchemeRAGAgent(): a new engine, _loaded = False
CreateEngine(t) ==
    /\ At(t, "create")
    /\ engine' = [engine EXCEPT !.ref = t, !.loaded[t] = FALSE]
    /\ Goto(t, "first_load")
    /\ UNCHANGED Others

\* self._rag_agent.load_schemes(): the engine the attribute holds now
CallLoad(t) ==
    /\ At(t, "first_load")
    /\ requests' = [requests EXCEPT ![t] = [pc |-> "load_check", self |-> engine.ref,
                                            ret |-> "retrieve"]]
    /\ UNCHANGED <<engine, Others>>

\* load_schemes: if self._loaded: return
LoadCheck(t) ==
    /\ At(t, "load_check")
    /\ Goto(t, IF engine.loaded[requests[t].self] THEN requests[t].ret ELSE "read")
    /\ UNCHANGED <<engine, Others>>

\* load_schemes: the file is read, the records normalised, the index built
ReadAndIndex(t) ==
    /\ At(t, "read")
    /\ engine' = [engine EXCEPT !.loads = @ + 1]
    /\ Goto(t, "set_loaded")
    /\ UNCHANGED Others

\* load_schemes: self._loaded = True
SetLoaded(t) ==
    /\ At(t, "set_loaded")
    /\ engine' = [engine EXCEPT !.loaded[requests[t].self] = TRUE]
    /\ Goto(t, requests[t].ret)
    /\ UNCHANGED Others

\* retrieve_schemes: if not self._loaded: self.load_schemes()
Retrieve(t) ==
    /\ At(t, "retrieve")
    /\ requests' = [requests EXCEPT ![t] =
                       IF engine.loaded[engine.ref]
                       THEN [pc |-> "done", self |-> engine.ref, ret |-> ""]
                       ELSE [pc |-> "load_check", self |-> engine.ref, ret |-> "done"]]
    /\ UNCHANGED <<engine, Others>>

NextFirstUse ==
    \E t \in Requests :
        \/ CheckAgent(t) \/ CreateEngine(t) \/ CallLoad(t) \/ LoadCheck(t)
        \/ ReadAndIndex(t) \/ SetLoaded(t) \/ Retrieve(t)

SpecFirstUse == InitFirstUse /\ [][NextFirstUse]_vars

\* C5: whatever the interleaving of the requests that use the engine for the
\* first time, the corpus is loaded and the index built at most once.
C5_LoadedAtMostOnce == engine.ref # 0 => engine.loads <= 1

----------------------------------------------------------------------------
(* SpecProcess: a turn, and the caller's reply to a topic list or to a scope *)
(* choice, answered by one SchemeAgentNode                                   *)

Turn(text, context, state) == [text |-> text, context |-> context, state |-> state]

\* the texts of a turn: a bare number, an age, a request without and with a
\* topic, a scope reply, a numbered request
Turns ==
    {Turn(<<Num(n)>>, c, "") : n \in 0..MaxNumber, c \in {"", "Goa", "Kerala"}}
    \cup {Turn(<<W("i"), W("am"), Num(n), W("years"), W("old"), W("and"),
                 W("from"), W("Goa")>>, "", "") : n \in (1..MaxNumber) \cup {45}}
    \cup {Turn(<<Num(n), W("years"), W("old"), W("farmer"), W("from"), W("Goa")>>,
               "", "") : n \in (1..MaxNumber) \cup {45}}
    \cup {Turn(<<W("schemes"), W("in"), W(j)>>, "", st) :
             j \in {"Goa", "Kerala"}, st \in {"", "Goa"}}
    \cup {Turn(<<W("financial"), W("assistance"), W("schemes"), W("in"), W("Goa")>>,
               "", ""),
          Turn(<<W("financial"), W("assistance"), W("schemes")>>, "", ""),
          Turn(<<W("animal"), W("husbandry"), W("schemes"), W("in"), W("Goa")>>,
               "", "")}
    \cup {Turn(<<W(k), W("schemes")>>, c, "") :
             k \in {"State", "Central"}, c \in {"", "Goa"}}
    \cup {Turn(<<W("loan"), W("in"), W("Goa")>>, "", ""),
          Turn(<<W("list"), W("of"), W("loan"), W("schemes")>>, "", "Goa"),
          Turn(<<W("list"), W("of"), W("financial"), W("assistance"), W("schemes")>>,
               "", "Goa")}
    \cup {Turn(<<W("scheme"), Num(n), W("in"), W("Goa")>>, "", "") : n \in 1..MaxNumber}
    \cup {Turn(<<Num(n), W("central"), W("scheme")>>, "Goa", "") : n \in 1..MaxNumber}

\* the caller's reply to a payload: a number out of a topic list, with the
\* marker for the list's state; a scope out of a scope choice, with or
\* without the marker and the state
Replies(payload) ==
    IF payload.response_type = "subcategories"
    THEN {Turn(<<Num(n)>>, payload.state, "") : n \in 0..MaxNumber}
    ELSE IF payload.response_type = "scheme_type_choice"
    THEN {Turn(<<W(k), W("schemes")>>, c, st) :
             k \in {"State", "Central"}, c \in {"", payload.state},
             st \in {"", payload.state}}
    ELSE {}

Deployments ==
    [file_ok : BOOLEAN, rag_available : BOOLEAN, impl : {"agent_system", "agents"}]

\* an unreadable file has no records
InitProcess ==
    /\ env \in Deployments
    /\ all_schemes \in (IF env.file_ok THEN Corpora ELSE {<<>>})
    /\ agent = NoAgent
    /\ turn = NoTurn
    /\ resp = NoResponse
    /\ prev = NoResponse
    /\ trace = NoTrace
    /\ IdleEligibility
    /\ query = NoQuery /\ results = <<>>
    /\ IdleMapping
    /\ IdleLoad

Flag(cond, name) == IF cond THEN {name} ELSE {}

\* (a value bound by \E over a singleton is computed once)
Answer(impl) ==
    /\ env.impl = impl
    /\ prev.response_type = "none"
    /\ \E tools \in {[st \in {"", "Goa", "Kerala"} |->
                        SubcategoriesTool(impl, env.file_ok, all_schemes, st)]},
          all_subcategories \in {load_all_subcategories(env.file_ok, all_schemes)},
          searches \in {VectorSearches(all_schemes, 2 * RagTopK, MaxScore)} :
       \E input \in (IF resp.response_type = "none" THEN Turns ELSE Replies(resp)) :
       \E facts \in {Facts(input)} :
       \E pre \in {PreMap(facts, tools)},
          extracted \in {extract_subcategory_from_input(UserInputClean(input),
                                                        all_subcategories)} :
       \E llm \in (IF pre.number_mapped_successfully THEN {NoAnswer}
                   ELSE LLMAnswers(input)) :
       \E r \in {Resolve(impl, facts, pre, llm, extracted, tools)} :
           LET scope == EffectiveScope(impl, facts, r.search_state)
               list == should_show_list(impl, facts, r)
               searching == ~list /\ (r.search_sub_category # "" \/ Hints(impl, facts))
               rag == searching /\ env.rag_available
               rag_ok == rag /\ ~RagRaises(env.file_ok, all_schemes)
               traditional == searching /\ ~rag_ok
           IN  \E vr \in (IF rag_ok THEN searches ELSE {<<>>}) :
               /\ resp' = IF list
                          THEN SubcategoriesPayload(impl, r, scope, tools[r.search_state])
                          ELSE IF ~searching THEN ErrorPayload
                          ELSE IF rag_ok THEN RagPayload(impl, facts, r, scope, vr)
                          ELSE TraditionalPayload(impl, r, scope, tools[r.search_state],
                                                  env.file_ok, all_schemes)
               /\ trace' = [calls |->
                               Flag(r.map_called, "map_number_to_subcategory")
                               \cup Flag(r.llm_called, "llm")
                               \cup Flag(rag /\ agent.rag_agent # "loaded", "load_schemes")
                               \cup Flag(rag_ok, "retrieve_schemes")
                               \cup Flag(rag /\ ~rag_ok, "rag_failed")
                               \cup Flag(traditional /\ resp'.response_type = "schemes",
                                         "scheme_tool"),
                            search_state |-> r.search_state,
                            search_sub_category |-> r.search_sub_category,
                            scheme_scope_pref |-> scope]
               /\ agent' = [rag_agent |->
                               IF ~rag THEN agent.rag_agent
                               ELSE IF env.file_ok THEN "loaded" ELSE "created",
                            subcategories_cache |->
                               agent.subcategories_cache
                               \/ (r.extract_called /\ env.file_ok)]
               /\ turn' = input
               /\ prev' = resp
    /\ UNCHANGED <<env, all_schemes, eligVars, retrVars, mapVars, loadVars>>

Process == Answer("agent_system")
ProcessAgents == Answer("agents")

NextProcess == Process \/ ProcessAgents

SpecProcess == InitProcess /\ [][NextProcess]_vars

Answered == resp.response_type # "none"
Retrievals == {"retrieve_schemes", "scheme_tool"}

\* the counts of a topic in the state's own and in the nationwide records
StateCount(topic, state) ==
    LookupCount(get_subcategories_tool(TRUE, all_schemes, state).state_schemes, topic)
CentralCount(topic, state) ==
    LookupCount(get_subcategories_tool(TRUE, all_schemes, state).central_schemes, topic)

\* the resolved topic is offered by the state and nationwide, no scope asked for
ScenarioC ==
    /\ Answered /\ env.file_ok
    /\ trace.search_sub_category # "" /\ trace.search_state # ""
    /\ trace.scheme_scope_pref = "all"
    /\ StateCount(trace.search_sub_category, trace.search_state) > 0
    /\ CentralCount(trace.search_sub_category, trace.search_state) > 0

\* C3: a turn whose resolved topic exists in the state's and in the
\* nationwide topic counts, with scope preference "all", is answered with a
\* scheme_type_choice payload carrying both counts, and no retrieval (RAG or
\* scheme_tool) is performed in that turn.
C3_ScopeChoiceBeforeRetrieval ==
    ScenarioC =>
        /\ resp.response_type = "scheme_type_choice"
        /\ resp.options = <<StateCount(trace.search_sub_category, trace.search_state),
                            CentralCount(trace.search_sub_category, trace.search_state)>>
        /\ trace.calls \cap Retrievals = {}

\* C4: a turn whose text (marker removed) matches an age phrase never has
\* _map_number_to_subcategory invoked.
C4_AgeIsNotASelection ==
    (Answered /\ is_age_mention(UserInputClean(turn)))
        => "map_number_to_subcategory" \notin trace.calls

\* C6: the n-th topic of the list in a topic-list payload is the topic that
\* _map_number_to_subcategory resolves n to, for the payload's state and scope.
C6_ShownListIsIndexedList ==
    (resp.response_type = "subcategories" /\ ~resp.error) =>
        \A n \in 1..(MaxNumber + 1) :
            map_number_to_subcategory(
                n, SubcategoriesTool(env.impl, env.file_ok, all_schemes, resp.state),
                resp.scheme_scope)
            = IF n <= Len(resp.sub_categories) THEN resp.sub_categories[n] ELSE ""

\* a reply to a topic list that is a bare number outside the list
OutOfRangeReply ==
    /\ prev.response_type = "subcategories" /\ Answered
    /\ Len(turn.text) = 1 /\ IsNum(turn.text[1])
    /\ turn.text[1].n \notin 1..Len(prev.sub_categories)

\* C8: a reply to a topic list with a number outside the list resolves no
\* topic, retrieves nothing, and is answered with the same topic list and an
\* explanatory message, not with an error payload.
C8_OutOfRangeIsReprompt ==
    OutOfRangeReply =>
        /\ trace.search_sub_category = ""
        /\ trace.calls \cap Retrievals = {}
        /\ resp.response_type = "subcategories"
        /\ resp.sub_categories = prev.sub_categories
        /\ "message" \in resp.keys

\* the scope a reply to a scope choice names: its first word
ScopeReply ==
    /\ prev.response_type = "scheme_type_choice" /\ Answered
    /\ Len(turn.text) = 2 /\ ~IsNum(turn.text[1])
    /\ turn.text[1].w \in {"State", "Central"}

\* C9: a reply to a scope choice that names a scope is answered with the
\* schemes retrieved for the topic of the choice under that scope, not with a
\* topic list, another topic or an error.
C9_ScopeReplyRetrievesTopic ==
    ScopeReply =>
        /\ resp.response_type = "schemes"
        /\ ~resp.error
        /\ trace.search_sub_category = prev.sub_category
        /\ trace.scheme_scope_pref = (IF turn.text[1].w = "State" THEN "state_only"
                                      ELSE "central_only")
        /\ trace.calls \cap Retrievals # {}

\* C10: when the schemes file cannot be read, every turn is answered with a
\* failure: never with a topic-list or schemes payload, and never after the
\* failed RAG path went on to the traditional search.
C10_LoadFailureIsSurfaced ==
    (Answered /\ ~env.file_ok) =>
        /\ resp.response_type \notin {"subcategories", "schemes"}
        /\ resp.error
        /\ ~("rag_failed" \in trace.calls /\ "scheme_tool" \in trace.calls)

----------------------------------------------------------------------------
(* SpecAssess: SchemeRAGAgent end to end over a schemes file: load_schemes   *)
(* normalises the records, retrieve_schemes searches and filters them,       *)
(* assess_eligibility assesses what was retrieved                            *)

AgeOld == <<W("Must"), W("be"), Num(18), W("-"), Num(60), W("years"), W("old")>>
MinLand == <<W("Minimum"), W("land"), Num(1), W("acre")>>
IncomeCap == <<W("Income"), W("must"), W("not"), W("exceed"), Num(2), W("lakh")>>
AgeTo == <<W("Age"), Num(18), W("to"), Num(60), W("years")>>
WomenFarmers == <<W("Women"), W("farmers")>>

EligibilityLists ==
    {<<>>, <<AgeOld, MinLand>>, <<IncomeCap>>, <<AgeTo>>, <<WomenFarmers>>}

RawSchemes ==
    [scheme_name : {"A"}, state : {"", "Goa"},
     sub_category : {<<"Financial assistance">>, <<"Insurance">>},
     eligibility : EligibilityLists]

RawCorpora == UNION {[1..n -> RawSchemes] : n \in 0..MaxRecords}

AssessProfiles ==
    [state : {Some("Goa")}, age : {NoneV, Some(45)}, land_size : {Some(2)},
     income : {Some(150000), Some(300000)}, target_group : {NoneV},
     sub_category : {Some("Financial assistance")}, scheme_scope : {"all"},
     crops : {<<>>}]

NewEngine == [ref |-> 1, loaded |-> FALSE, loads |-> 0, schemes |-> <<>>]

InitAssess ==
    /\ all_schemes \in RawCorpora
    /\ profile \in AssessProfiles
    /\ engine = NewEngine
    /\ requests = <<>>
    /\ query = NoQuery
    /\ results = <<>>
    /\ scheme = NoScheme
    /\ elig = NotAssessed
    /\ IdleMapping
    /\ IdleProcess

\* load_schemes: normalise every record of the file
Loaded(e, file) ==
    IF e.loaded THEN e
    ELSE [ref |-> e.ref, loaded |-> TRUE, loads |-> e.loads + 1,
          schemes |-> [i \in 1..Len(file) |-> normalize_scheme(file[i])]]

LoadSchemes ==
    /\ ~engine.loaded
    /\ engine' = Loaded(engine, all_schemes)
    /\ UNCHANGED <<profile, scheme, elig, all_schemes, query, results, requests,
                   mapVars, procVars>>

\* The query text carries the profile's sub_category and rag_text carries the
\* record's: a tag that two records share is a term of the index (min_df=2),
\* so a record carrying the profile's tag has similarity > 0 then.
SureHit(p, rec, schemes) ==
    /\ TruthyS(p.sub_category)
    /\ \E k \in 1..Len(rec.sub_category) :
          Lower(rec.sub_category[k]) = Lower(Val(p.sub_category))
    /\ Cardinality({i \in 1..Len(schemes) :
                      \E k \in 1..Len(schemes[i].sub_category) :
                          Lower(schemes[i].sub_category[k]) = Lower(Val(p.sub_category))})
          >= 2

SearchesFor(p, schemes, top_k) ==
    {vr \in VectorSearches(schemes, top_k, MaxScore) :
        \A i \in 1..Len(schemes) :
            SureHit(p, schemes[i], schemes) =>
                Cardinality({j \in 1..Len(vr) : vr[j].scheme = schemes[i]})
                  = Cardinality({j \in 1..Len(schemes) : schemes[j] = schemes[i]})}

\* process_query: retrieve_schemes(profile, top_k=10), loading first if needed
RetrieveForProfile ==
    /\ query = NoQuery
    /\ engine' = Loaded(engine, all_schemes)
    /\ \E vr \in SearchesFor(profile, engine'.schemes, 2 * RagTopK) :
          results' = retrieve_schemes(profile, vr, RagTopK)
    /\ query' = [via |-> "retrieve_schemes", state |-> profile.state,
                 scheme_scope |-> profile.scheme_scope]
    /\ UNCHANGED <<profile, scheme, elig, all_schemes, requests, mapVars, procVars>>

\* assess_eligibility: each retrieved record with its status and reasons
AssessEligibility ==
    /\ query.via = "retrieve_schemes"
    /\ results' = [i \in 1..Len(results) |->
                     LET e == check_eligibility(profile, results[i])
                     IN  [scheme_name |-> results[i].scheme_name,
                          state |-> results[i].state,
                          eligibility |-> results[i].eligibility,
                          hints |-> results[i].hints,
                          eligibility_status |-> e.status,
                          eligibility_reasons |-> e.reasons]]
    /\ query' = [query EXCEPT !.via = "assess_eligibility"]
    /\ UNCHANGED <<profile, scheme, elig, all_schemes, requests, engine,
                   mapVars, procVars>>

NextAssess == LoadSchemes \/ RetrieveForProfile \/ AssessEligibility

SpecAssess == InitAssess /\ [][NextAssess]_vars

\* Scenario A: the Goa record and the nationwide record, and the profile
ScenarioACorpus ==
    << [scheme_name |-> "A", state |-> "Goa",
        sub_category |-> <<"Financial assistance">>,
        eligibility |-> <<AgeOld, MinLand>>],
       [scheme_name |-> "A", state |-> "",
        sub_category |-> <<"Financial assistance">>,
        eligibility |-> <<IncomeCap>>] >>

ScenarioAProfile ==
    [state |-> Some("Goa"), age |-> Some(45), land_size |-> Some(2),
     income |-> Some(150000), target_group |-> NoneV,
     sub_category |-> Some("Financial assistance"), scheme_scope |-> "all",
     crops |-> <<>>]

ScenarioA ==
    /\ all_schemes = ScenarioACorpus
    /\ profile = ScenarioAProfile
    /\ query.via = "assess_eligibility"

\* C13: in Scenario A both records are returned and both are assessed
\* "likely_eligible".
C13_ScenarioALikely ==
    ScenarioA =>
        /\ Len(results) = 2
        /\ \A i \in 1..2 : results[i].eligibility_status = "likely_eligible"

----------------------------------------------------------------------------
(* SpecListing: the topic list of a state and scope derived from the schemes *)
(* file, twice: get_subcategories_tool reads the file, then the list is      *)
(* derived as _map_number_to_subcategory derives it                          *)

ListingTags ==
    {<<a>> : a \in Topics} \cup {<<p[1], p[2]>> : p \in {q \in Topics \X Topics : q[1] # q[2]}}

ListingSchemes ==
    [scheme_name : {"A"}, state : {"", "Goa", "Kerala"}, sub_category : ListingTags]

ListingCorpora == UNION {[1..n -> ListingSchemes] : n \in 0..MaxRecords}

InitListing ==
    /\ all_schemes \in ListingCorpora
    /\ subcats = [error |-> TRUE]
    /\ mapped = [called |-> FALSE]
    /\ query = NoQuery
    /\ results = <<>>
    /\ IdleEligibility
    /\ IdleProcess
    /\ IdleLoad

\* display_list for the state and scope, from a fresh read of the file
DeriveList ==
    /\ ~mapped.called
    /\ \E state \in {"", "Goa"}, scope \in Scopes :
          /\ subcats' = get_subcategories_tool(TRUE, all_schemes, state)
          /\ mapped' = [called |-> TRUE, again |-> FALSE, state |-> state,
                        scope |-> scope, list |-> DisplayList(subcats', scope),
                        list2 |-> <<>>]
    /\ UNCHANGED <<eligVars, all_schemes, retrVars, procVars, loadVars>>

\* the same derivation once more, for the same state and scope
DeriveAgain ==
    /\ mapped.called /\ ~mapped.again
    /\ subcats' = get_subcategories_tool(TRUE, all_schemes, mapped.state)
    /\ mapped' = [mapped EXCEPT !.again = TRUE,
                                !.list2 = DisplayList(subcats', mapped.scope)]
    /\ UNCHANGED <<eligVars, all_schemes, retrVars, procVars, loadVars>>

NextListing == DeriveList \/ DeriveAgain

SpecListing == InitListing /\ [][NextListing]_vars

RankedKeys(d, excluded) ==
    LET keys == {d[i][1] : i \in 1..Len(d)} \ excluded
        C(k) == d[CHOOSE i \in 1..Len(d) : d[i][1] = k][2]
        Before(x, y) == C(x) > C(y) \/ (C(x) = C(y) /\ AlphabetRank(x) < AlphabetRank(y))
    IN  [i \in 1..Cardinality(keys) |->
            CHOOSE x \in keys : Cardinality({y \in keys : Before(y, x)}) = i - 1]

RankedList(info, scope) ==
    IF scope = "state_only" THEN RankedKeys(info.state_schemes, {})
    ELSE IF scope = "central_only" THEN RankedKeys(info.central_schemes, {})
    ELSE RankedKeys(info.state_schemes, {})
         \o RankedKeys(info.central_schemes,
                       {info.state_schemes[i][1] : i \in 1..Len(info.state_schemes)})

\* C15: the topic list is the state's topics by record count descending,
\* equal counts in alphabetical order, followed by the nationwide topics not
\* already listed in the same order, whatever the order of the records.
C15_ListIsRanked ==
    mapped.called => mapped.list = RankedList(subcats, mapped.scope)

\* C16: when the caller supplies a state with the turn, that state is the one
\* used for topic listing, number mapping and retrieval, whatever the text or
\* the LLM yields.
C16_CallerStateWins ==
    (Answered /\ turn.state # "") => trace.search_state = turn.state

\* the text of the turn has none of the scope keywords
NoScopeLanguage ==
    /\ ~mentions_central(UserInput(turn))
    /\ ~mentions_state_only(UserInput(turn))
    /\ ~mentions_both(UserInput(turn))

\* C17: a turn without nationwide-vs-local language is answered with scope
\* preference "all" in its search parameters and in the profile it retrieves
\* with, whether or not a state was resolved.
C17_DefaultScopeIsAll ==
    (Answered /\ NoScopeLanguage /\ resp.response_type # "error") =>
        /\ trace.scheme_scope_pref = "all"
        /\ resp.scheme_scope \in {"", "all"}

\* C18: a turn that is not answered with an error is answered with the topic
\* list exactly when no topic was resolved and the text either carries no
\* contextual signal or asks for a list; every other answer is a retrieval
\* or a scope choice.
ListExpected ==
    /\ trace.search_sub_category = ""
    /\ \/ ~has_contextual_hints(UserInput(turn))
       \/ explicit_subcategory_request(UserInput(turn))

C18_ListExactlyWithoutTopicOrSignal ==
    (Answered /\ resp.response_type # "error") =>
        /\ (resp.response_type = "subcategories") <=> ListExpected
        /\ resp.response_type \in {"subcategories", "schemes", "scheme_type_choice"}

\* the scope filter of the path the call took, applied to a record's state
ScopeFilterKeeps(scheme_state) ==
    IF query.via = "retrieve_schemes"
    THEN RetrieveScopeKeeps([state |-> query.state,
                             scheme_scope |-> query.scheme_scope], scheme_state)
    ELSE ToolScopeKeeps(QueryState, query.scheme_scope, scheme_state)

OwnOrNationwide(scheme_state) ==
    scheme_state = "" \/ Lower(scheme_state) = Lower(QueryState)

----------------------------------------------------------------------------
(* SpecRanking: retrieve_schemes over records with distinct names, with the *)
(* vector store's answer kept beside the result                             *)

RankedNames == {"A", "B", "C"}

\* the order of str comparison on the names of the model
NameRank(name) ==
    CASE name = "A" -> 1
      [] name = "B" -> 2
      [] OTHER -> 3

RankedSchemes ==
    [scheme_name : RankedNames, state : {"", "Goa"},
     sub_category : {<<"Financial assistance">>}, crop_tags : {<<>>, <<"rice">>}]

RankedCorpora ==
    UNION { { c \in [1..n -> RankedSchemes] :
                \A i \in 1..n : \A j \in 1..n :
                    i # j => c[i].scheme_name # c[j].scheme_name }
            : n \in 0..MaxRecords }

RankingProfiles ==
    [state : {NoneV, Some("goa")}, sub_category : {NoneV},
     scheme_scope : {"all"}, crops : {<<>>, <<"rice">>}]

InitRanking ==
    /\ all_schemes \in RankedCorpora
    /\ query = NoQuery
    /\ results = <<>>
    /\ IdleEligibility
    /\ IdleMapping
    /\ IdleProcess
    /\ IdleLoad

RankSchemes ==
    /\ query = NoQuery
    /\ \E top_k \in 1..MaxTopK :
      \E vr \in VectorSearches(all_schemes, 2 * top_k, MaxScore) :
       \E p \in RankingProfiles :
        /\ query' = [via |-> "retrieve_schemes", state |-> p.state,
                     scheme_scope |-> p.scheme_scope, crops |-> p.crops,
                     vector_results |-> vr]
        /\ results' = retrieve_schemes(p, vr, top_k)
        /\ UNCHANGED <<all_schemes, eligVars, mapVars, procVars, loadVars>>

NextRanking == RankSchemes

SpecRanking == InitRanking /\ [][NextRanking]_vars

\* the boosted score retrieve_schemes gave a returned record
RankedScore(s) ==
    LET k == CHOOSE k \in 1..Len(query.vector_results) :
                 query.vector_results[k].scheme = s
    IN  BoostedScore([state |-> query.state, crops |-> query.crops], s,
                     query.vector_results[k].score)

\* C20: retrieve_schemes returns the records by boosted score descending,
\* records of equal score by scheme_name ascending, whatever the order of
\* the corpus.
C20_RankedByScoreThenName ==
    Called =>
        \A i \in 1..Len(results) : \A j \in 1..Len(results) :
            i < j =>
                \/ RankedScore(results[i]) > RankedScore(results[j])
                \/ /\ RankedScore(results[i]) = RankedScore(results[j])
                   /\ NameRank(results[i].scheme_name)
                          <= NameRank(results[j].scheme_name)

----------------------------------------------------------------------------
(* SpecSession: several turns answered by one SchemeAgentNode, whose        *)
(* _subcategories_cache and _rag_agent live from one turn to the next        *)

MaxEarlier == 1     \* turns an instance answered before the one looked at

\* SchemeAgentNode.__init__
NewNode == [rag_agent |-> "none", subcategories_cache |-> NoneV]

\* a cache that went stale: once set it holds none of the topics
stale_subcategories(node, file_ok, schemes) ==
    IF node.subcategories_cache # NoneV
    THEN <<>>
    ELSE load_all_subcategories(file_ok, schemes)

\* _load_all_subcategories: the cache when it is set, else the file
cached_subcategories(node, file_ok, schemes) ==
    IF node.subcategories_cache # NoneV
    THEN Val(node.subcategories_cache)
    ELSE load_all_subcategories(file_ok, schemes)

\* the RAG path on this instance: a new engine is created and loaded, an
\* engine that is not loaded loads inside retrieve_schemes, a loaded engine
\* searches what it holds
EngineRaises(node, file_ok, schemes) ==
    IF node.rag_agent = "loaded"
    THEN schemes = <<>>
    ELSE RagRaises(file_ok, schemes)

\* process on an instance in state node, the topic resolved as r: the
\* response and the instance after
ProcessResolved(impl, node, e, schemes, vr, tools, facts, r) ==
    LET scope == EffectiveScope(impl, facts, r.search_state)
        list == should_show_list(impl, facts, r)
        searching == ~list /\ (r.search_sub_category # "" \/ Hints(impl, facts))
        rag == searching /\ e.rag_available
        rag_ok == rag /\ ~EngineRaises(node, e.file_ok, schemes)
    IN  [resp |->
            IF list
            THEN SubcategoriesPayload(impl, r, scope, tools[r.search_state])
            ELSE IF ~searching THEN ErrorPayload
            ELSE IF rag_ok THEN RagPayload(impl, facts, r, scope, vr)
            ELSE TraditionalPayload(impl, r, scope, tools[r.search_state],
                                    e.file_ok, schemes),
         rag_ok |-> rag_ok,
         node |->
            [rag_agent |->
                IF ~rag THEN node.rag_agent
                ELSE IF e.file_ok THEN "loaded" ELSE "created",
             subcategories_cache |->
                IF r.extract_called /\ e.file_ok
                   /\ node.subcategories_cache = NoneV
                THEN Some(load_all_subcategories(e.file_ok, schemes))
                ELSE node.subcategories_cache]]

\* the steps of process up to the resolved topic, each handing what it
\* found to the next
ProcessMapped(impl, node, e, schemes, llm, vr, tools, facts, pre, extracted) ==
    ProcessResolved(impl, node, e, schemes, vr, tools, facts,
                    Resolve(impl, facts, pre,
                            IF pre.number_mapped_successfully
                            THEN NoAnswer ELSE llm,
                            extracted, tools))

ProcessWith(impl, node, e, schemes, input, llm, vr, tools, facts) ==
    ProcessMapped(impl, node, e, schemes, llm, vr, tools, facts,
                  PreMap(facts, tools),
                  extract_subcategory_from_input(
                      UserInputClean(input),
                      cached_subcategories(node, e.file_ok, schemes)))

ProcessOn(impl, node, e, schemes, input, llm, vr) ==
    ProcessWith(impl, node, e, schemes, input, llm, vr,
                [st \in {"", "Goa", "Kerala"} |->
                    SubcategoriesTool(impl, e.file_ok, schemes, st)],
                Facts(input))

SessionTurns ==
    {Turn(<<W("financial"), W("assistance"), W("schemes"), W("in"), W("Goa")>>, "", ""),
     Turn(<<W("animal"), W("husbandry"), W("schemes"), W("in"), W("Goa")>>, "", ""),
     Turn(<<W("schemes"), W("in"), W("Goa")>>, "", ""),
     Turn(<<W("loan"), W("in"), W("Goa")>>, "", ""),
     Turn(<<Num(1)>>, "Goa", "")}

\* the corpora of Goa and nationwide records
SessionCorpora ==
    {c \in Corpora : \A i \in 1..Len(c) : c[i].state # "Kerala"}

InitSession ==
    /\ env \in Deployments
    /\ all_schemes \in (IF env.file_ok THEN SessionCorpora ELSE {<<>>})
    /\ agent = NewNode
    /\ turn = NoTurn
    /\ resp = NoResponse
    /\ prev = NoResponse
    /\ trace = [earlier |-> 0, node |-> NewNode, llm |-> NoAnswer,
                vector_results |-> <<>>]
    /\ IdleEligibility
    /\ query = NoQuery /\ results = <<>>
    /\ IdleMapping
    /\ IdleLoad

\* a turn answered earlier by the instance: what stays of it is the state
\* of the instance (which no answer of the vector store changes)
EarlierTurn ==
    /\ turn = NoTurn
    /\ trace.earlier < MaxEarlier
    /\ \E input \in SessionTurns :
       \E llm \in LLMAnswers(input) :
           /\ agent' = ProcessOn(env.impl, agent, env, all_schemes, input, llm,
                                 <<>>).node
           /\ trace' = [trace EXCEPT !.earlier = trace.earlier + 1]
    /\ UNCHANGED <<env, turn, resp, prev, all_schemes, eligVars, retrVars,
                   mapVars, loadVars>>

\* the turn whose response is looked at; the trace keeps the instance it
\* found and what the LLM and the vector store answered
LatestTurn ==
    /\ turn = NoTurn
    /\ \E searches \in {VectorSearches(all_schemes, 2 * RagTopK, MaxScore)} :
       \E input \in SessionTurns :
       \E llm \in LLMAnswers(input) :
       \E dry \in {ProcessOn(env.impl, agent, env, all_schemes, input, llm, <<>>)} :
       \E vr \in (IF dry.rag_ok THEN searches ELSE {<<>>}) :
       \E out \in {IF dry.rag_ok
                   THEN ProcessOn(env.impl, agent, env, all_schemes, input, llm, vr)
                   ELSE dry} :
           /\ resp' = out.resp
           /\ agent' = out.node
           /\ turn' = input
           /\ trace' = [trace EXCEPT !.node = agent, !.llm = llm,
                                     !.vector_results = vr]
    /\ UNCHANGED <<env, prev, all_schemes, eligVars, retrVars, mapVars, loadVars>>

NextSession == EarlierTurn \/ LatestTurn

SpecSession == InitSession /\ [][NextSession]_vars

\* the response of an instance that has answered nothing before
FreshResponse ==
    ProcessOn(env.impl, NewNode, env, all_schemes, turn, trace.llm,
              trace.vector_results).resp

\* C21: the response to a turn does not depend on the turns the instance
\* answered before: it is the response a new instance gives to the same turn
\* over the same corpus, with the same answers of the LLM and of the vector
\* store.
C21_ResponseIgnoresHistory ==
    turn # NoTurn => resp = FreshResponse

\* a turn was answered with a retrieval by an instance that had cached the
\* topics and loaded its engine in an earlier turn
C21_Witness ==
    /\ turn # NoTurn
    /\ trace.earlier >= 1
    /\ trace.node.rag_agent = "loaded"
    /\ trace.node.subcategories_cache # NoneV
    /\ resp.response_type = "schemes"
    /\ resp.rag_used
    /\ resp.schemes # <<>>

----------------------------------------------------------------------------
(* SpecNormalize: normalize_scheme applied to one raw record of the file,   *)
(* whose fields can be missing, empty, well formed or of another type       *)

MaxApplications == 2     \* applications of normalize_scheme to the record

\* a field of the raw record: its shape and, when well formed, its value.
\* "int" is a number where text or a list is expected, "mixed" a list with
\* an item of another type
Field(shape, value) == [shape |-> shape, value |-> value]

\* scheme.get(name) is truthy
Given(f) == f.shape \notin {"missing", "empty"}

AgeDown == <<W("Age"), Num(60), W("to"), Num(18), W("years")>>
AgeAlone == <<W("Age"), Num(50)>>
RiceAndWheat == <<W("rice"), W("and"), W("wheat")>>

NormalizerTexts == {<<AgeTo>>, <<AgeDown>>, <<AgeAlone>>, <<WomenFarmers, MinLand>>}

NormalizerRecords ==
    [scheme_name : {Field("missing", ""), Field("ok", "A"), Field("int", "")},
     brief_description : {Field("missing", <<>>), Field("ok", RiceAndWheat),
                          Field("int", <<>>)},
     sub_category : {Field("missing", <<>>), Field("empty", <<>>),
                     Field("ok", <<"Financial assistance">>),
                     Field("int", <<>>),
                     Field("mixed", <<"Financial assistance">>)},
     eligibility : {Field("missing", <<>>), Field("empty", <<>>), Field("int", <<>>),
                    \* str(None) of the item that is not text
                    Field("mixed", <<AgeTo, <<W("None")>>>>)}
                   \cup {Field("ok", e) : e \in NormalizerTexts},
     references : {Field("missing", <<>>), Field("int", <<>>),
                   Field("ok", <<[title |-> "Application Link", url |-> "u"]>>),
                   \* a string and a dict without url
                   Field("mixed", <<>>)},
     state : {"", "Goa"}]

\* the orders list(set(crops)) can come out in: one ranking of the crop
\* names per hash seed of the process
HashSeeds ==
    {s \in [1..Len(crop_keywords) -> 1..Len(crop_keywords)] :
        \A i \in 1..Len(crop_keywords) : \A j \in 1..Len(crop_keywords) :
            i # j => s[i] # s[j]}

\* the operations of normalize_scheme that raise TypeError on a field that
\* is not text or not a list of text: " ".join(rag_parts) with a number in
\* it, " ".join(sub_category), eligibility[:3], iterating references
Raises(rec) ==
    \/ rec.scheme_name.shape = "int"
    \/ rec.brief_description.shape = "int"
    \/ rec.sub_category.shape \in {"int", "mixed"}
    \/ rec.eligibility.shape = "int"
    \/ rec.references.shape = "int"

\* the record as the extraction helpers read it
Readable(rec) ==
    [scheme_name |-> rec.scheme_name.value, state |-> rec.state,
     sub_category |-> rec.sub_category.value,
     eligibility |-> IF Given(rec.eligibility) THEN rec.eligibility.value ELSE <<>>]

\* rag_text, as the parts joined: the name, the description, the tags and
\* the first three eligibility sentences (all shorter than the cut-offs)
rag_text(rec) ==
    (IF Given(rec.scheme_name) THEN <<W(rec.scheme_name.value)>> ELSE <<>>)
    \o (IF Given(rec.brief_description) THEN rec.brief_description.value ELSE <<>>)
    \o (IF Given(rec.sub_category)
        THEN [i \in 1..Len(rec.sub_category.value) |-> W(rec.sub_category.value[i])]
        ELSE <<>>)
    \o eligibility_text([eligibility |-> Take(Readable(rec).eligibility, 3)])

\* _extract_crop_tags: the keywords found in the description and the
\* eligibility text, title-cased, then list(set(crops)) in the order of seed
crop_tags(rec, seed) ==
    LET text == (IF Given(rec.brief_description)
                 THEN rec.brief_description.value ELSE <<>>)
                \o eligibility_text(Readable(rec))
        found == {k \in 1..Len(crop_keywords) :
                    \E i \in 1..Len(text) : Inside(text[i], crop_keywords[k][1])}
    IN  [j \in 1..Cardinality(found) |->
            crop_keywords[CHOOSE k \in found :
                              Cardinality({m \in found : seed[m] < seed[k]}) = j - 1][2]]

\* normalize_scheme in a process of hash seed `seed`: what is added to the
\* record, or that the call raised
Normalized(rec, seed) ==
    IF Raises(rec)
    THEN [raised |-> TRUE]
    ELSE [raised |-> FALSE,
          rag_text |-> rag_text(rec),
          eligibility_hints |-> extract_eligibility_hints(Readable(rec)),
          crop_tags |-> crop_tags(rec, seed),
          application_links |-> IF Given(rec.references)
                                THEN rec.references.value ELSE <<>>]

InitNormalize ==
    /\ all_schemes \in {<<rec>> : rec \in NormalizerRecords}
    /\ query = [via |-> "none", seeds |-> <<>>]
    /\ results = <<>>
    /\ IdleEligibility
    /\ IdleMapping
    /\ IdleProcess
    /\ IdleLoad

\* one more application to the record, in a process of some hash seed
NormalizeScheme ==
    /\ Len(results) < MaxApplications
    /\ \E seed \in HashSeeds :
          /\ results' = Append(results, Normalized(all_schemes[1], seed))
          /\ query' = [via |-> "normalize_scheme", seeds |-> Append(query.seeds, seed)]
    /\ UNCHANGED <<all_schemes, eligVars, mapVars, procVars, loadVars>>

NextNormalize == NormalizeScheme

SpecNormalize == InitNormalize /\ [][NextNormalize]_vars

\* C22: normalize_scheme raises for no record, whatever fields are missing,
\* empty or of another type, and a field that is missing or empty gives an
\* empty default in the enriched record.
C22_NormalizeNeverRaises ==
    \A i \in 1..Len(results) :
        /\ ~results[i].raised
        /\ ~Given(all_schemes[1].references) => results[i].application_links = <<>>
        /\ (~Given(all_schemes[1].eligibility)
               /\ ~Given(all_schemes[1].brief_description))
              => results[i].crop_tags = <<>>
        /\ ~Given(all_schemes[1].eligibility)
              => /\ results[i].eligibility_hints.age_min = NoneV
                 /\ results[i].eligibility_hints.age_max = NoneV
                 /\ results[i].eligibility_hints.target_groups = <<>>

\* C23: two applications of normalize_scheme to the same raw record give the
\* same output, the order of crop_tags and of the target groups included.
C23_NormalizeIsDeterministic ==
    Len(results) = 2 => results[1] = results[2]

\* C24: when the extraction sets both age_min and age_max, age_min is at
\* most age_max.
C24_AgeBoundsOrdered ==
    \A i \in 1..Len(results) :
        (/\ ~results[i].raised
         /\ results[i].eligibility_hints.age_min # NoneV
         /\ results[i].eligibility_hints.age_max # NoneV)
            => Val(results[i].eligibility_hints.age_min)
                  <= Val(results[i].eligibility_hints.age_max)

----------------------------------------------------------------------------
(* SpecSuggestion: generate_price_suggestion (buyer_connect_logic.py).      *)
(* Prices are whole rupees; the bounds and the suggestion are in units of   *)
(* 1/200 rupee, in which 0.90 x, 1.15 x and the mean of two bounds are exact *)

MaxPrice == 6        \* prices range over 0..MaxPrice rupees

PerRupee == 200      \* units of a rupee
LowerShare == 180    \* (1 - ALPHA) of a rupee
UpperShare == 230    \* (1 + BETA) of a rupee

fair_lower(farmer_threshold_price, benchmark_price) ==
    LET benchmark_lower == benchmark_price * LowerShare
    IN  IF farmer_threshold_price * PerRupee >= benchmark_lower
        THEN farmer_threshold_price * PerRupee ELSE benchmark_lower

\* an upper bound that leaves the buyer's price out
benchmark_upper_only(buyer_preferred_price, benchmark_price) ==
    benchmark_price * UpperShare

fair_upper(buyer_preferred_price, benchmark_price) ==
    LET benchmark_upper == benchmark_price * UpperShare
    IN  IF buyer_preferred_price * PerRupee <= benchmark_upper
        THEN buyer_preferred_price * PerRupee ELSE benchmark_upper

generate_price_suggestion(farmer_threshold_price, buyer_preferred_price, benchmark_price) ==
    LET lower == fair_lower(farmer_threshold_price, benchmark_price)
        upper == fair_upper(buyer_preferred_price, benchmark_price)
    IN  IF lower > upper
        THEN [suggested_price |-> NoneV, fair_lower |-> lower,
              fair_upper |-> upper, has_fair_match |-> FALSE]
        ELSE [suggested_price |-> Some((lower + upper) \div 2),
              fair_lower |-> lower, fair_upper |-> upper,
              has_fair_match |-> TRUE]

InitSuggestion ==
    /\ query \in [via : {"none"}, farmer_threshold_price : 0..MaxPrice,
                  buyer_preferred_price : 0..MaxPrice,
                  benchmark_price : 0..MaxPrice]
    /\ results = <<>>
    /\ all_schemes = <<>>
    /\ IdleEligibility
    /\ IdleMapping
    /\ IdleProcess
    /\ IdleLoad

SuggestPrice ==
    /\ query.via = "none"
    /\ results' = <<generate_price_suggestion(query.farmer_threshold_price,
                                              query.buyer_preferred_price,
                                              query.benchmark_price)>>
    /\ query' = [query EXCEPT !.via = "generate_price_suggestion"]
    /\ UNCHANGED <<all_schemes, eligVars, mapVars, procVars, loadVars>>

NextSuggestion == SuggestPrice

SpecSuggestion == InitSuggestion /\ [][NextSuggestion]_vars

\* max(farmer, 0.90 benchmark) and min(buyer, 1.15 benchmark) of the call
ClaimedLower ==
    LET a == query.farmer_threshold_price * PerRupee
        b == query.benchmark_price * LowerShare
    IN  IF a >= b THEN a ELSE b
ClaimedUpper ==
    LET a == query.buyer_preferred_price * PerRupee
        b == query.benchmark_price * UpperShare
    IN  IF a <= b THEN a ELSE b

\* C25: has_fair_match is true exactly when fair_lower <= fair_upper; then
\* the suggested price lies between the two bounds, so not below the
\* farmer's threshold and not above the buyer's price; otherwise the
\* suggested price is None.
C25_SuggestionWithinFairRange ==
    query.via = "generate_price_suggestion" =>
        LET s == results[1]
        IN  /\ s.has_fair_match <=> ClaimedLower <= ClaimedUpper
            /\ s.has_fair_match =>
                  /\ s.suggested_price # NoneV
                  /\ ClaimedLower <= Val(s.suggested_price)
                  /\ Val(s.suggested_price) <= ClaimedUpper
                  /\ Val(s.suggested_price) >= query.farmer_threshold_price * PerRupee
                  /\ Val(s.suggested_price) <= query.buyer_preferred_price * PerRupee
            /\ ~s.has_fair_match => s.suggested_price = NoneV

\* a fair match whose bounds are the benchmark's on one side and a party's
\* on the other, the suggestion strictly between them
C25_Witness ==
    /\ query.via = "generate_price_suggestion"
    /\ results[1].has_fair_match
    /\ results[1].fair_lower > query.farmer_threshold_price * PerRupee
    /\ results[1].fair_upper = query.buyer_preferred_price * PerRupee
    /\ results[1].fair_lower < Val(results[1].suggested_price)
    /\ Val(results[1].suggested_price) < results[1].fair_upper

----------------------------------------------------------------------------
(* SpecBuyerConnect: the negotiation endpoints of buyer_connect_api.py over *)
(* BuyerConnectStorage (buyer_connect_storage.py).  The database sits in    *)
(* engine: the listings by document id, the matches and the negotiations by *)
(* their position, which stands for the generated document id.  requests    *)
(* holds the last call that was carried out; a refused call (4xx, or one    *)
(* that finds its work done) changes nothing.  An id value carries its      *)
(* Python type: <<"int", "1">> is the integer 1, <<"str", "1">> the string, *)
(* which are different values to == and to a where('listing_id', '==', ..)  *)
(* query.  The price fields of a negotiation play no part in its decision   *)
(* and are left out; the price agent answers with a price or with none (0). *)

MaxMatches == 2        \* matches created by negotiate_price
MaxNegotiations == 2   \* negotiations created by the two creating endpoints

ListingDocs == {"1", "a"}           \* document ids of the listings
PathIds == {"1", "01", "a"}         \* listing ids written in a request path
Numerals == {"1", "01"}             \* the texts int() accepts
BuyerIds == {"1", "2", "7"}
BenchmarkAnswers == {0, 5}          \* current_price of the price agent
Decisions == {"accept", "counter", "reject", "later"}

\* int(text) of a numeral, str(value) of an id value
int(text) == <<"int", IF text = "01" THEN "1" ELSE text>>
str(value) == value[2]

\* try: int(listing_id) except ValueError: listing_id
IntIfPossible(text) == IF text \in Numerals THEN int(text) ELSE <<"str", text>>

\* preferred price of the buyer's interest in the listing's crop
Buyers == [b \in {"1", "2"} |-> IF b = "1" THEN 6 ELSE 2]

ListingThresholds == {4}   \* farmer_threshold_price of a listing

Call(op, id, outcome) == [op |-> op, id |-> id, outcome |-> outcome]

get_listing(e, listing_id) ==
    IF str(listing_id) \in DOMAIN e.listings
    THEN Some(e.listings[str(listing_id)]) ELSE NoneV

\* the update of a missing document raises, which the method swallows
update_listing_status(e, listing_id, status) ==
    IF str(listing_id) \in DOMAIN e.listings
    THEN [e EXCEPT !.listings[str(listing_id)].status = status] ELSE e

create_match(e, match) == [e EXCEPT !.matches = Append(@, match)]

get_match(e, match_id) ==
    IF match_id \in DOMAIN e.matches THEN Some(e.matches[match_id]) ELSE NoneV

update_match_status(e, match_id, status) ==
    IF match_id \in DOMAIN e.matches
    THEN [e EXCEPT !.matches[match_id].match_status = status] ELSE e

get_matches_for_listing(e, listing_id) ==
    {i \in DOMAIN e.matches : e.matches[i].listing_id = listing_id}

storage_create_negotiation(e, negotiation) ==
    [e EXCEPT !.negotiations = Append(@, negotiation)]

get_negotiations_for_listing(e, listing_id) ==
    {i \in DOMAIN e.negotiations : e.negotiations[i].listing_id = listing_id}

storage_update_negotiation_decision(e, negotiation_id, decision) ==
    IF negotiation_id \in DOMAIN e.negotiations
    THEN [e EXCEPT !.negotiations[negotiation_id].decision = Some(decision)]
    ELSE e

\* benchmark of negotiate_price: the agent's price, or the mean of the two
\* parties' prices when it has none
Benchmark(answer, farmer_threshold_price, preferred_price) ==
    IF answer <= 0 THEN (farmer_threshold_price + preferred_price) \div 2
    ELSE answer

InitBuyerConnect ==
    /\ \E listings \in [ListingDocs -> [status : {"open"},
                                         farmer_threshold_price :
                                             ListingThresholds]] :
           engine = [listings |-> listings, matches |-> <<>>,
                     negotiations |-> <<>>]
    /\ requests = <<>>
    /\ IdleEligibility
    /\ IdleRetrieval
    /\ IdleMapping
    /\ IdleProcess

negotiate_price(listing_id, buyer_id, answer) ==
    /\ LET listing == get_listing(engine, IntIfPossible(listing_id))
       IN  IF listing = NoneV \/ buyer_id \notin DOMAIN Buyers
           THEN UNCHANGED <<engine, requests>>
           ELSE LET preferred_price == Buyers[buyer_id]
                    benchmark_price ==
                        Benchmark(answer, Val(listing).farmer_threshold_price,
                                  preferred_price)
                    price_suggestion ==
                        generate_price_suggestion(
                            Val(listing).farmer_threshold_price,
                            preferred_price, benchmark_price)
                    buyer_match ==
                        [listing_id |-> IntIfPossible(listing_id),
                         match_status |-> IF price_suggestion.has_fair_match
                                          THEN "negotiating" ELSE "open"]
                    e1 == create_match(engine, buyer_match)
                IN  /\ Len(engine.matches) < MaxMatches
                    /\ engine' = IF price_suggestion.has_fair_match
                                 THEN update_listing_status(
                                          e1, <<"str", listing_id>>, "negotiating")
                                 ELSE e1
                    /\ requests' = <<Call("negotiate_price", listing_id, "ok")>>
    /\ UNCHANGED <<eligVars, all_schemes, retrVars, mapVars, procVars>>

\* tests of the loop over the other matches that reject every other match,
\* or the open ones only
RejectsOtherAlways(other_id, match_id, other_status) == other_id # match_id

RejectsOtherOpen(other_id, match_id, other_status) ==
    other_id # match_id /\ other_status = "open"

\* the test of the loop that rejects the other matches of the listing

RejectsOther(other_id, match_id, other_status) ==
    other_id # match_id /\ other_status = "negotiating"

accept_match(match_id) ==
    /\ LET match == get_match(engine, match_id)
       IN  IF match = NoneV
           THEN UNCHANGED <<engine, requests>>
           ELSE IF Val(match).match_status = "accepted"
           THEN UNCHANGED <<engine, requests>>
           ELSE IF Val(match).match_status = "rejected"
           THEN UNCHANGED <<engine, requests>>
           ELSE LET e1 == update_match_status(engine, match_id, "accepted")
                    e2 == update_listing_status(e1, Val(match).listing_id, "closed")
                    other_matches ==
                        get_matches_for_listing(e2, Val(match).listing_id)
                    e3 == [e2 EXCEPT !.matches =
                             [i \in DOMAIN e2.matches |->
                                IF /\ i \in other_matches
                                   /\ RejectsOther(i, match_id,
                                                   e2.matches[i].match_status)
                                THEN [e2.matches[i] EXCEPT
                                         !.match_status = "rejected"]
                                ELSE e2.matches[i]]]
                IN  /\ engine' = e3
                    /\ requests' = <<Call("accept_match", match_id, "ok")>>
    /\ UNCHANGED <<eligVars, all_schemes, retrVars, mapVars, procVars>>

reject_match(match_id) ==
    /\ LET match == get_match(engine, match_id)
       IN  IF match = NoneV
           THEN UNCHANGED <<engine, requests>>
           ELSE IF Val(match).match_status = "rejected"
           THEN UNCHANGED <<engine, requests>>
           ELSE IF Val(match).match_status = "accepted"
           THEN UNCHANGED <<engine, requests>>
           ELSE /\ engine' = update_match_status(engine, match_id, "rejected")
                /\ requests' = <<Call("reject_match", match_id, "ok")>>
    /\ UNCHANGED <<eligVars, all_schemes, retrVars, mapVars, procVars>>

\* POST /negotiations: the record is stored as it was sent; listing_id may
\* be an integer or a string
create_negotiation(listing_id) ==
    /\ /\ Len(engine.negotiations) < MaxNegotiations
       /\ engine' = storage_create_negotiation(
                        engine, [listing_id |-> listing_id, decision |-> NoneV])
       /\ requests' = <<Call("create_negotiation", str(listing_id), "ok")>>
    /\ UNCHANGED <<eligVars, all_schemes, retrVars, mapVars, procVars>>

negotiate_price_enhanced(listing_id, buyer_id) ==
    /\ LET listing == get_listing(engine, IntIfPossible(listing_id))
       IN  IF listing = NoneV \/ buyer_id \notin DOMAIN Buyers
           THEN UNCHANGED <<engine, requests>>
           ELSE /\ Len(engine.negotiations) < MaxNegotiations
                /\ engine' = storage_create_negotiation(
                                 engine, [listing_id |-> <<"str", listing_id>>,
                                          decision |-> NoneV])
                /\ requests' =
                      <<Call("negotiate_price_enhanced", listing_id, "ok")>>
    /\ UNCHANGED <<eligVars, all_schemes, retrVars, mapVars, procVars>>

update_negotiation_decision(negotiation_id, decision) ==
    /\ IF decision \notin {"accept", "counter", "reject"}
       THEN UNCHANGED <<engine, requests>>
       ELSE IF negotiation_id \notin DOMAIN engine.negotiations
       THEN UNCHANGED <<engine, requests>>
       ELSE LET e1 == storage_update_negotiation_decision(
                          engine, negotiation_id, decision)
                negotiation == e1.negotiations[negotiation_id]
                e2 == update_listing_status(e1, negotiation.listing_id, "closed")
                other_negotiations ==
                    get_negotiations_for_listing(
                        e2, <<"str", str(negotiation.listing_id)>>)
                e3 == [e2 EXCEPT !.negotiations =
                         [i \in DOMAIN e2.negotiations |->
                            IF /\ i \in other_negotiations
                               /\ i # negotiation_id
                               /\ e2.negotiations[i].decision # Some("reject")
                            THEN [e2.negotiations[i] EXCEPT
                                     !.decision = Some("reject")]
                            ELSE e2.negotiations[i]]]
            IN  /\ engine' = IF decision = "accept" THEN e3 ELSE e1
                /\ requests' = <<[op |-> "update_negotiation_decision",
                                  id |-> negotiation_id, outcome |-> "ok",
                                  decision |-> decision]>>
    /\ UNCHANGED <<eligVars, all_schemes, retrVars, mapVars, procVars>>

NextBuyerConnect ==
    \/ \E l \in PathIds, b \in BuyerIds, a \in BenchmarkAnswers :
           negotiate_price(l, b, a)
    \/ \E m \in 1..MaxMatches : accept_match(m)
    \/ \E m \in 1..MaxMatches : reject_match(m)
    \/ \E l \in {<<"int", "1">>, <<"str", "1">>, <<"str", "a">>} :
           create_negotiation(l)
    \/ \E l \in PathIds, b \in BuyerIds : negotiate_price_enhanced(l, b)
    \/ \E n \in 1..MaxNegotiations, d \in Decisions :
           update_negotiation_decision(n, d)

SpecBuyerConnect == InitBuyerConnect /\ [][NextBuyerConnect]_vars

\* the three endpoints that work on matches, without the negotiation records
NextMatches ==
    \/ \E l \in PathIds, b \in BuyerIds, a \in BenchmarkAnswers :
           negotiate_price(l, b, a)
    \/ \E m \in 1..MaxMatches : accept_match(m)
    \/ \E m \in 1..MaxMatches : reject_match(m)

SpecMatches == InitBuyerConnect /\ [][NextMatches]_vars

\* the listing document an id value names: the one the creating endpoint
\* looked up (int() where the text allows it, then str() for the document)
ListingOf(value) == str(IntIfPossible(str(value)))

AcceptRecorded ==
    /\ requests # <<>>
    /\ requests[1].op = "update_negotiation_decision"
    /\ requests[1].decision = "accept"

\* C26: after the decision "accept" is recorded for a negotiation through
\* update_negotiation_decision, that negotiation's decision is "accept", its
\* listing's status is CLOSED, and every other negotiation of the same
\* listing has decision "reject".
C26_AcceptClosesAndRejectsOthers ==
    AcceptRecorded =>
        LET n == requests[1].id
            listing == ListingOf(engine.negotiations[n].listing_id)
        IN  /\ engine.negotiations[n].decision = Some("accept")
            /\ engine.listings[listing].status = "closed"
            /\ \A k \in DOMAIN engine.negotiations \ {n} :
                   ListingOf(engine.negotiations[k].listing_id) = listing
                       => engine.negotiations[k].decision = Some("reject")

\* a step that carries out accept_match(m)
AcceptStep(m) ==
    /\ requests' = <<Call("accept_match", m, "ok")>>
    /\ <<engine, requests>>' # <<engine, requests>>

\* C27: after accept_match succeeds on a match that was OPEN or NEGOTIATING,
\* that match is ACCEPTED, its listing is CLOSED, and every other match of
\* the same listing that was NEGOTIATING is REJECTED.
C27_AcceptMatchClosesAndRejects ==
    [][\A m \in 1..MaxMatches :
          AcceptStep(m) =>
              LET listing == ListingOf(engine.matches[m].listing_id)
              IN  /\ engine.matches[m].match_status \in {"open", "negotiating"}
                  /\ engine'.matches[m].match_status = "accepted"
                  /\ engine'.listings[listing].status = "closed"
                  /\ \A k \in DOMAIN engine.matches \ {m} :
                         (/\ ListingOf(engine.matches[k].listing_id) = listing
                          /\ engine.matches[k].match_status = "negotiating")
                             => engine'.matches[k].match_status = "rejected"]_vars

\* an accept has just been carried out on a listing that has another match,
\* which is rejected, and the listing is closed
C27_Witness ==
    /\ requests # <<>>
    /\ requests[1].op = "accept_match"
    /\ LET m == requests[1].id
           listing == ListingOf(engine.matches[m].listing_id)
       IN  /\ engine.matches[m].match_status = "accepted"
           /\ engine.listings[listing].status = "closed"
           /\ \E k \in DOMAIN engine.matches \ {m} :
                  /\ ListingOf(engine.matches[k].listing_id) = listing
                  /\ engine.matches[k].match_status = "rejected"

\* C28: ACCEPTED and REJECTED are terminal for a match: no sequence of
\* negotiate_price, accept_match and reject_match changes the status of a
\* match that is ACCEPTED or REJECTED.
C28_AcceptedRejectedTerminal ==
    [][\A m \in DOMAIN engine.matches :
          engine.matches[m].match_status \in {"accepted", "rejected"}
              => engine'.matches[m].match_status
                     = engine.matches[m].match_status]_vars

\* an accept has just been carried out on a listing another match of which
\* was accepted before and still is
C28_Witness ==
    /\ requests # <<>>
    /\ requests[1].op = "accept_match"
    /\ LET m == requests[1].id
       IN  /\ engine.matches[m].match_status = "accepted"
           /\ \E k \in DOMAIN engine.matches \ {m} :
                  /\ engine.matches[k].listing_id = engine.matches[m].listing_id
                  /\ engine.matches[k].match_status = "accepted"

AcceptedOf(listing) ==
    {m \in DOMAIN engine.matches :
        /\ ListingOf(engine.matches[m].listing_id) = listing
        /\ engine.matches[m].match_status = "accepted"}

\* C29: in every reachable state each listing has at most one match whose
\* status is ACCEPTED.
C29_AtMostOneAccepted ==
    \A listing \in ListingDocs : Cardinality(AcceptedOf(listing)) <= 1

StatusRank(status) ==
    CASE status = "open" -> 0
      [] status = "negotiating" -> 1
      [] status = "closed" -> 2

\* C30: once a listing is CLOSED it stays CLOSED under negotiate_price,
\* accept_match, reject_match and update_negotiation_decision; its status
\* only moves forward along OPEN, NEGOTIATING, CLOSED.
C30_ListingStatusOnlyForward ==
    [][\A d \in ListingDocs :
          StatusRank(engine'.listings[d].status)
              >= StatusRank(engine.listings[d].status)]_vars

====
